------------------------- MODULE SecretCacheProofs -------------------------
(***************************************************************************)
(* Theorems about SecretCache for any names, secrets and writers.           *)
(***************************************************************************)
EXTENDS SecretCache, TLAPS

\* SettledStays is not inductive: a store publishes a copy made earlier.  What
\* carries it is that every copy in progress already agrees with what is settled,
\* and that the name it is about is not.
CopyInv ==
  /\ TypeOK /\ SettledStays
  /\ \A w \in busy :
       /\ settled[writes[w]] = Open
       /\ \A n \in Names : settled[n] # Open => next[w][n] = settled[n]

\* CopyInv is preserved by every step.
LEMMA CopyStep == ASSUME CopyInv, [Next]_vars PROVE CopyInv'
<1> USE SecretAssumption DEF CopyInv, TypeOK, SettledStays, Maps, Empty, get
<1>1. ASSUME NEW w \in Writers, NEW n \in Names, NEW v \in Secrets, InsertLoad(w, n, v)
      PROVE CopyInv'
  <2>1. TypeOK'
    BY <1>1 DEF InsertLoad
  <2>2. SettledStays'
    BY <1>1 DEF InsertLoad
  <2>3. ASSUME NEW x \in busy'
        PROVE /\ (settled[writes[x]])' = Open
              /\ \A i \in Names : settled'[i] # Open => next'[x][i] = settled'[i]
    <3>1. CASE x = w
      BY <1>1, <3>1 DEF InsertLoad
    <3>2. CASE x # w
      BY <1>1, <2>3, <3>2 DEF InsertLoad
    <3> QED
      BY <3>1, <3>2
  <2> QED
    BY <2>1, <2>2, <2>3
<1>2. ASSUME NEW w \in Writers, InsertStore(w) PROVE CopyInv'
  <2>1. TypeOK'
    BY <1>2 DEF InsertStore, Settle
  <2>2. SettledStays'
    BY <1>2 DEF InsertStore, Settle
  <2>3. ASSUME NEW x \in busy'
        PROVE /\ (settled[writes[x]])' = Open
              /\ \A i \in Names : settled'[i] # Open => next'[x][i] = settled'[i]
    BY <1>2, <2>3 DEF InsertStore, Settle
  <2> QED
    BY <2>1, <2>2, <2>3
<1>3. ASSUME NEW m \in Maps, replace(m) PROVE CopyInv'
  BY <1>3 DEF replace
<1>4. CASE UNCHANGED vars
  BY <1>4 DEF vars
<1> QED
  BY <1>1, <1>2, <1>3, <1>4 DEF Next

\* Overlapping inserts never take away a settled secret, nor bring back one that
\* had been removed, for any number of writers.
THEOREM SettledKept == Spec => []SettledStays
<1>1. Init => CopyInv
  BY SecretAssumption DEF Init, CopyInv, TypeOK, SettledStays, Maps, Empty, get
<1>2. CopyInv /\ [Next]_vars => CopyInv'
  BY CopyStep
<1>3. CopyInv => SettledStays
  BY DEF CopyInv
<1> QED
  BY <1>1, <1>2, <1>3, PTL DEF Spec
=============================================================================
