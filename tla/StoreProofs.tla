---------------------------- MODULE StoreProofs ----------------------------
(***************************************************************************)
(* Proofs about what is stored, read back and shown: the invariants of the  *)
(* simulated chain, the watcher, the settings and the chat, and what all the *)
(* parts, composed, promise.  The chain client and the files have proofs of  *)
(* their own (ChainClientProofs, StateFilesProofs), which are cited.        *)
(***************************************************************************)
EXTENDS Store, TLAPS

---------------------------------------------------------------------------
(* The simulated chain                                                     *)

Maybe(S) == {{}} \cup {{s} : s \in S}
Snapshot == [Simulated -> Dry!Reads!Stage]
ChainTypeOK ==
  /\ chain \in Snapshot
  /\ asked \in [Askers -> Maybe(Snapshot)] /\ answer \in [Askers -> Maybe(Snapshot)]
  /\ got \in [Askers -> Maybe(Snapshot)] /\ waiting \in [Askers -> Maybe(Askers)]
  /\ value \in Maybe(Snapshot) /\ inflight \in Maybe(Askers)

(* Who waits, waits for a load that is under way, and everything seen is a *)
(* moment of the past.                                                     *)
LoadsGoOn ==
  /\ \A r \in Askers : got[r] # {} => waiting[r] = {r}
  /\ \A r, q \in Askers : waiting[r] = {q} => asked[r] # {} /\ got[q] # {}
  /\ \A q \in Askers : inflight = {q} => got[q] # {}
SeenIsPast ==
  /\ \A r \in Askers : \A s \in got[r] : Dry!Reads!NotAfter(s, chain)
  /\ \A s \in value : Dry!Reads!NotAfter(s, chain)

(* What a load has taken is recent enough for everyone who awaits it.      *)
RecentEnough ==
  \A r, q \in Askers : waiting[r] = {q} =>
    \A floor \in asked[r], s \in got[q] : Dry!Reads!NotAfter(floor, s)

ChainInv == ChainTypeOK /\ LoadsGoOn /\ SeenIsPast /\ RecentEnough

---------------------------------------------------------------------------
(* Stages are ordered                                                      *)

(* A stage has its place in the order. *)
LEMMA Ranks ==
  /\ \A x \in Dry!Reads!Stage : Dry!Reads!Rank[x] \in 0..5
  /\ {"none", "full", "gone"} \subseteq Dry!Reads!Stage
  /\ Dry!Reads!Rank["none"] = 0 /\ Dry!Reads!Rank["full"] = 3 /\ Dry!Reads!Rank["gone"] = 5
<1>1. Dry!Reads!Stage = {"none", "empty", "part", "full", "draining", "gone"}
  BY DEF Dry!Reads!Stage, Dry!Reads!Rank
<1>2. /\ Dry!Reads!Rank["none"] = 0 /\ Dry!Reads!Rank["empty"] = 1 /\ Dry!Reads!Rank["part"] = 2
      /\ Dry!Reads!Rank["full"] = 3 /\ Dry!Reads!Rank["draining"] = 4 /\ Dry!Reads!Rank["gone"] = 5
  BY DEF Dry!Reads!Rank
<1>3. ASSUME NEW x \in Dry!Reads!Stage PROVE Dry!Reads!Rank[x] \in 0..5
  BY <1>1, <1>2, <1>3
<1> QED BY <1>1, <1>2, <1>3

(* Before and after, in the order of the stages. *)
LEMMA Ordered ==
  ASSUME NEW s \in Snapshot
  PROVE  /\ Dry!Reads!NotAfter(s, s)
         /\ Dry!Nothing \in Snapshot /\ Dry!Reads!NotAfter(Dry!Nothing, s) /\ Dry!Reads!Nothing = Dry!Nothing
         /\ \A t, u \in Snapshot :
              Dry!Reads!NotAfter(s, t) /\ Dry!Reads!NotAfter(t, u) => Dry!Reads!NotAfter(s, u)
<1>1. \A t \in Snapshot, p \in Simulated : Dry!Reads!Rank[t[p]] \in 0..5
  BY Ranks DEF Snapshot
<1>2. Dry!Nothing \in Snapshot /\ Dry!Reads!Nothing = Dry!Nothing
      /\ \A p \in Simulated : Dry!Reads!Rank[Dry!Nothing[p]] = 0
  BY Ranks DEF Dry!Nothing, Dry!Reads!Nothing, Snapshot
<1>3. Dry!Reads!NotAfter(s, s) /\ Dry!Reads!NotAfter(Dry!Nothing, s)
  BY <1>1, <1>2 DEF Dry!Reads!NotAfter
<1>4. ASSUME NEW t \in Snapshot, NEW u \in Snapshot, Dry!Reads!NotAfter(s, t), Dry!Reads!NotAfter(t, u)
      PROVE  Dry!Reads!NotAfter(s, u)
  <2>1. ASSUME NEW p \in Simulated PROVE Dry!Reads!Rank[s[p]] <= Dry!Reads!Rank[u[p]]
    <3>1. /\ Dry!Reads!Rank[s[p]] <= Dry!Reads!Rank[t[p]] /\ Dry!Reads!Rank[t[p]] <= Dry!Reads!Rank[u[p]]
          /\ Dry!Reads!Rank[s[p]] \in Nat /\ Dry!Reads!Rank[t[p]] \in Nat /\ Dry!Reads!Rank[u[p]] \in Nat
      BY <1>1, <1>4 DEF Dry!Reads!NotAfter
    <3> QED BY <3>1
  <2> QED BY <2>1 DEF Dry!Reads!NotAfter
<1> QED BY <1>2, <1>3, <1>4

(* A write moves one position on. *)
LEMMA WriteIsForward ==
  ASSUME chain \in Snapshot, NEW p \in Simulated, NEW stage \in {"full", "gone"},
         Dry!Written(p, stage),
         chain[p] = "none" \/ chain[p] = "full"
  PROVE  /\ chain' \in Snapshot /\ Dry!Reads!NotAfter(chain, chain')
         /\ value' = {} /\ UNCHANGED <<asked, answer, waiting, got, inflight>>
<1>1. /\ chain' \in Snapshot /\ chain'[p] = stage
      /\ \A q \in Simulated : q # p => chain'[q] = chain[q]
  BY Ranks DEF Dry!Written, Snapshot
<1>2. Dry!Reads!Rank[chain[p]] <= Dry!Reads!Rank[chain'[p]]
  BY <1>1, Ranks
<1>3. \A q \in Simulated : Dry!Reads!Rank[chain[q]] \in 0..5
  BY Ranks DEF Snapshot
<1>4. ASSUME NEW q \in Simulated PROVE Dry!Reads!Rank[chain[q]] <= Dry!Reads!Rank[chain'[q]]
  BY <1>1, <1>2, <1>3
<1> QED BY <1>1, <1>4 DEF Dry!Reads!NotAfter, Dry!Written

(* The steps that write, and all they do to what is known. *)
Writes == \/ \E w \in Traders : Dry!Deployed(w)
          \/ \E p \in Simulated : Dry!ClosePosition(p) \/ Dry!ClaimFees(p)
LEMMA WritesMove ==
  ASSUME chain \in Snapshot, Writes
  PROVE  /\ chain' \in Snapshot /\ Dry!Reads!NotAfter(chain, chain')
         /\ value' = {} /\ UNCHANGED <<asked, answer, waiting, got, inflight>>
<1>1. \E p \in Simulated, stage \in {"full", "gone"} :
        Dry!Written(p, stage) /\ (chain[p] = "none" \/ chain[p] = "full")
  BY DEF Writes, Dry!Deployed, Dry!ClosePosition, Dry!ClaimFees
<1>2. PICK p \in Simulated, stage \in {"full", "gone"} :
        Dry!Written(p, stage) /\ (chain[p] = "none" \/ chain[p] = "full")
  BY <1>1
<1> QED BY <1>2, WriteIsForward

---------------------------------------------------------------------------
(* The invariant                                                           *)

(* A question answered at once, or one that waits for a load. *)
LEMMA AskSteps ==
  ASSUME NEW r \in Askers, NEW force \in BOOLEAN, Dry!GetMyPositions(r, force)
  PROVE  /\ asked[r] = {} /\ UNCHANGED <<chain, value>>
         /\ \/ /\ value # {} /\ answer' = [answer EXCEPT ![r] = value]
               /\ UNCHANGED <<asked, waiting, got, inflight>>
            \/ /\ answer' = [answer EXCEPT ![r] = {}]
               /\ asked' = [asked EXCEPT ![r] = {Dry!Nothing}]
               /\ inflight # {} /\ waiting' = [waiting EXCEPT ![r] = inflight]
               /\ UNCHANGED <<got, inflight>>
            \/ /\ answer' = [answer EXCEPT ![r] = {}]
               /\ \E floor \in {chain, Dry!Nothing} : asked' = [asked EXCEPT ![r] = {floor}]
               /\ waiting' = [waiting EXCEPT ![r] = {r}] /\ inflight' = {r}
               /\ got' = [got EXCEPT ![r] = {chain}]
  BY DEF Dry!GetMyPositions, Dry!Cached

(* A question keeps the types. *)
LEMMA AskTyped ==
  ASSUME ChainTypeOK, NEW r \in Askers, NEW force \in BOOLEAN, Dry!GetMyPositions(r, force)
  PROVE  ChainTypeOK'
<1>1. chain \in Snapshot /\ Dry!Nothing \in Snapshot
  BY Ordered DEF ChainTypeOK
<1>2. /\ {} \in Maybe(Snapshot) /\ {chain} \in Maybe(Snapshot) /\ {Dry!Nothing} \in Maybe(Snapshot)
      /\ {r} \in Maybe(Askers)
  BY <1>1 DEF Maybe
<1> HIDE DEF Maybe
<1>3. UNCHANGED <<chain, value>>
  BY AskSteps
<1>4. CASE /\ value # {} /\ answer' = [answer EXCEPT ![r] = value]
           /\ UNCHANGED <<asked, waiting, got, inflight>>
  BY <1>3, <1>4 DEF ChainTypeOK
<1>5. CASE /\ answer' = [answer EXCEPT ![r] = {}]
           /\ asked' = [asked EXCEPT ![r] = {Dry!Nothing}]
           /\ inflight # {} /\ waiting' = [waiting EXCEPT ![r] = inflight]
           /\ UNCHANGED <<got, inflight>>
  BY <1>2, <1>3, <1>5 DEF ChainTypeOK
<1>6. ASSUME NEW floor \in {chain, Dry!Nothing}, asked' = [asked EXCEPT ![r] = {floor}],
             answer' = [answer EXCEPT ![r] = {}], waiting' = [waiting EXCEPT ![r] = {r}],
             inflight' = {r}, got' = [got EXCEPT ![r] = {chain}]
      PROVE  ChainTypeOK'
  <2>1. {floor} \in Maybe(Snapshot)
    BY <1>2
  <2> QED BY <1>2, <1>3, <1>6, <2>1 DEF ChainTypeOK
<1> QED BY <1>4, <1>5, <1>6, AskSteps

(* A load that is stored keeps the types. *)
LEMMA StoredTyped ==
  ASSUME ChainTypeOK, NEW r \in Askers, Dry!Stored(r)
  PROVE  ChainTypeOK'
<1>1. {} \in Maybe(Snapshot) /\ {} \in Maybe(Askers)
  BY DEF Maybe
<1>2. got[r] \in Maybe(Snapshot)
  BY DEF ChainTypeOK
<1>3. /\ answer' \in [Askers -> Maybe(Snapshot)] /\ asked' \in [Askers -> Maybe(Snapshot)]
      /\ waiting' \in [Askers -> Maybe(Askers)]
  BY <1>1, <1>2 DEF Dry!Stored, ChainTypeOK
<1> QED BY <1>1, <1>2, <1>3 DEF Dry!Stored, ChainTypeOK

(* A question keeps the invariant. *)
LEMMA AskKeeps ==
  ASSUME ChainInv, NEW r \in Askers, NEW force \in BOOLEAN, Dry!GetMyPositions(r, force)
  PROVE  ChainInv'
<1>1. ChainTypeOK'
  BY AskTyped DEF ChainInv
<1>2. asked[r] = {} /\ UNCHANGED <<chain, value>>
  BY AskSteps
<1>3. waiting[r] = {} /\ got[r] = {}
  BY <1>2 DEF ChainInv, ChainTypeOK, LoadsGoOn, Maybe
<1>4. chain \in Snapshot
  BY DEF ChainInv, ChainTypeOK
<1>5. CASE UNCHANGED <<asked, waiting, got, inflight>>
  BY <1>1, <1>2, <1>5 DEF ChainInv, LoadsGoOn, SeenIsPast, RecentEnough
<1>6. CASE /\ asked' = [asked EXCEPT ![r] = {Dry!Nothing}] /\ inflight # {}
           /\ waiting' = [waiting EXCEPT ![r] = inflight] /\ UNCHANGED <<got, inflight>>
  <2>1. /\ asked'[r] = {Dry!Nothing} /\ waiting'[r] = inflight
        /\ \A q \in Askers : q # r => asked'[q] = asked[q] /\ waiting'[q] = waiting[q]
    BY <1>6 DEF ChainInv, ChainTypeOK
  <2>2. LoadsGoOn'
    BY <1>3, <1>6, <2>1 DEF ChainInv, LoadsGoOn
  <2>3. SeenIsPast'
    BY <1>2, <1>6 DEF ChainInv, SeenIsPast
  <2>4. \A q \in Askers : \A s \in got[q] : s \in Snapshot
    BY DEF ChainInv, ChainTypeOK, Maybe
  <2>5. RecentEnough'
    <3>1. ASSUME NEW q \in Askers, waiting'[r] = {q}, NEW floor \in asked'[r], NEW s \in got'[q]
          PROVE  Dry!Reads!NotAfter(floor, s)
      BY <1>6, <2>1, <2>4, <3>1, Ordered
    <3> QED BY <1>6, <2>1, <3>1 DEF ChainInv, RecentEnough
  <2> QED BY <1>1, <2>2, <2>3, <2>5 DEF ChainInv
<1>7. ASSUME NEW floor \in {chain, Dry!Nothing}, asked' = [asked EXCEPT ![r] = {floor}],
             waiting' = [waiting EXCEPT ![r] = {r}], inflight' = {r},
             got' = [got EXCEPT ![r] = {chain}]
      PROVE  ChainInv'
  <2>1. /\ asked'[r] = {floor} /\ waiting'[r] = {r} /\ got'[r] = {chain}
        /\ \A q \in Askers : q # r =>
             asked'[q] = asked[q] /\ waiting'[q] = waiting[q] /\ got'[q] = got[q]
    BY <1>7 DEF ChainInv, ChainTypeOK
  <2>2. \A q \in Askers : waiting[q] # {r}
    BY <1>3 DEF ChainInv, LoadsGoOn
  <2>3. LoadsGoOn'
    BY <1>7, <2>1 DEF ChainInv, LoadsGoOn
  <2>4. Dry!Reads!NotAfter(chain, chain) /\ Dry!Reads!NotAfter(floor, chain)
    BY <1>4, Ordered
  <2>5. SeenIsPast'
    BY <1>2, <2>1, <2>4 DEF ChainInv, SeenIsPast
  <2>6. RecentEnough'
    BY <2>1, <2>2, <2>4 DEF ChainInv, RecentEnough
  <2> QED BY <1>1, <2>3, <2>5, <2>6 DEF ChainInv
<1> QED BY <1>5, <1>6, <1>7, AskSteps

(* So does a load that is stored. *)
LEMMA StoredKeeps ==
  ASSUME ChainInv, NEW r \in Askers, Dry!Stored(r)
  PROVE  ChainInv'
<1>1. ChainTypeOK'
  BY StoredTyped DEF ChainInv
<1>2. /\ got[r] # {} /\ value' = got[r] /\ inflight' = {} /\ UNCHANGED chain
      /\ got' = [got EXCEPT ![r] = {}]
  BY DEF Dry!Stored
<1>3. ASSUME NEW q \in Askers
      PROVE  /\ waiting[q] = {r} => waiting'[q] = {} /\ asked'[q] = {}
             /\ waiting[q] # {r} => waiting'[q] = waiting[q] /\ asked'[q] = asked[q]
  BY DEF Dry!Stored
<1>4. got'[r] = {} /\ \A q \in Askers : q # r => got'[q] = got[q]
  BY <1>2 DEF ChainInv, ChainTypeOK
<1>5. \A q \in Askers : got'[q] # {} => q # r /\ got'[q] = got[q]
  <2> SUFFICES ASSUME NEW q \in Askers, got'[q] # {} PROVE q # r /\ got'[q] = got[q]
    OBVIOUS
  <2>1. q # r
    BY <1>4
  <2> QED BY <1>4, <2>1
<1>6. \A q, d \in Askers : waiting'[q] = {d} =>
        d # r /\ waiting[q] = {d} /\ asked'[q] = asked[q] /\ got'[d] = got[d]
  <2> SUFFICES ASSUME NEW q \in Askers, NEW d \in Askers, waiting'[q] = {d}
               PROVE  d # r /\ waiting[q] = {d} /\ asked'[q] = asked[q] /\ got'[d] = got[d]
    OBVIOUS
  <2>1. waiting[q] # {r}
    BY <1>3
  <2>2. waiting'[q] = waiting[q] /\ asked'[q] = asked[q]
    BY <1>3, <2>1
  <2>3. d # r
    BY <2>1, <2>2
  <2> QED BY <1>4, <2>2, <2>3
<1>7. LoadsGoOn'
  <2>0. LoadsGoOn
    BY DEF ChainInv
  <2>1. \A q \in Askers : got[q] # {} => waiting[q] = {q}
    BY <2>0 DEF LoadsGoOn
  <2>2. \A q, d \in Askers : waiting[q] = {d} => asked[q] # {} /\ got[d] # {}
    BY <2>0 DEF LoadsGoOn
  <2>3. ASSUME NEW q \in Askers, got'[q] # {} PROVE waiting'[q] = {q}
    <3>1. q # r /\ waiting[q] = {q}
      BY <1>5, <2>1, <2>3
    <3>2. waiting[q] # {r}
      BY <3>1
    <3> QED BY <1>3, <3>1, <3>2
  <2>4. \A q, d \in Askers : waiting'[q] = {d} => asked'[q] # {} /\ got'[d] # {}
    <3> SUFFICES ASSUME NEW q \in Askers, NEW d \in Askers, waiting'[q] = {d}
                 PROVE  asked'[q] # {} /\ got'[d] # {}
      OBVIOUS
    <3>1. waiting[q] = {d} /\ asked'[q] = asked[q] /\ got'[d] = got[d]
      BY <1>6
    <3> QED BY <2>2, <3>1
  <2> QED BY <1>2, <2>3, <2>4 DEF LoadsGoOn
<1>8. SeenIsPast'
  <2>1. \A q \in Askers : \A s \in got[q] : Dry!Reads!NotAfter(s, chain)
    BY DEF ChainInv, SeenIsPast
  <2>2. \A q \in Askers : \A s \in got'[q] : Dry!Reads!NotAfter(s, chain)
    BY <1>5, <2>1
  <2>3. \A s \in value' : Dry!Reads!NotAfter(s, chain)
    BY <1>2, <2>1
  <2> QED BY <1>2, <2>2, <2>3 DEF SeenIsPast, Dry!Reads!NotAfter
<1>9. RecentEnough'
  <2>1. \A q, d \in Askers : waiting[q] = {d} =>
          \A floor \in asked[q], s \in got[d] : Dry!Reads!NotAfter(floor, s)
    BY DEF ChainInv, RecentEnough
  <2>2. \A q, d \in Askers : waiting'[q] = {d} =>
          \A floor \in asked'[q], s \in got'[d] : Dry!Reads!NotAfter(floor, s)
    BY <1>6, <2>1
  <2> QED BY <2>2 DEF RecentEnough, Dry!Reads!NotAfter
<1> QED BY <1>1, <1>7, <1>8, <1>9 DEF ChainInv

(* And a write, which drops what was cached. *)
LEMMA WriteKeeps ==
  ASSUME ChainInv, Writes
  PROVE  ChainInv'
<1>1. chain \in Snapshot
  BY DEF ChainInv, ChainTypeOK
<1>2. /\ chain' \in Snapshot /\ Dry!Reads!NotAfter(chain, chain')
      /\ value' = {} /\ UNCHANGED <<asked, answer, waiting, got, inflight>>
  BY <1>1, WritesMove
<1>3. ChainTypeOK'
  BY <1>2 DEF ChainInv, ChainTypeOK, Maybe
<1>4. \A r \in Askers : \A s \in got[r] : s \in Snapshot /\ Dry!Reads!NotAfter(s, chain)
  BY DEF ChainInv, ChainTypeOK, Maybe, SeenIsPast
<1>5. \A r \in Askers : \A s \in got[r] : Dry!Reads!NotAfter(s, chain')
  BY <1>1, <1>2, <1>4, Ordered
<1>6. SeenIsPast'
  BY <1>2, <1>5 DEF SeenIsPast
<1> QED BY <1>2, <1>3, <1>6 DEF ChainInv, LoadsGoOn, RecentEnough

(* So it holds. *)
LEMMA ChainInvHolds == Dry!Spec => []ChainInv
<1>1. Dry!Init => ChainInv
  <2> SUFFICES ASSUME Dry!Init PROVE ChainInv
    OBVIOUS
  <2>1. Dry!Nothing \in Snapshot
    BY Ranks DEF Dry!Nothing, Snapshot
  <2>2. ChainTypeOK
    BY <2>1 DEF Dry!Init, ChainTypeOK, Maybe
  <2> QED BY <2>2 DEF Dry!Init, ChainInv, LoadsGoOn, SeenIsPast, RecentEnough
<1>2. ASSUME ChainInv, [Dry!Next]_(Dry!vars) PROVE ChainInv'
  <2>1. ASSUME NEW r \in Askers, NEW force \in BOOLEAN, Dry!GetMyPositions(r, force) PROVE ChainInv'
    BY <1>2, <2>1, AskKeeps
  <2>2. ASSUME NEW r \in Askers, Dry!Stored(r) PROVE ChainInv'
    BY <1>2, <2>2, StoredKeeps
  <2>3. CASE Writes
    BY <1>2, <2>3, WriteKeeps
  <2>4. CASE Dry!Expire \/ (\E w \in Traders : Dry!DeployPosition(w)) \/ UNCHANGED Dry!vars
    <3>1. UNCHANGED <<chain, asked, answer, waiting, got, value, inflight>>
      BY <2>4 DEF Dry!Expire, Dry!DeployPosition, Dry!vars, Dry!memory
    <3> QED BY <1>2, <3>1 DEF ChainInv, ChainTypeOK, LoadsGoOn, SeenIsPast, RecentEnough
  <2> QED BY <1>2, <2>1, <2>2, <2>3, <2>4 DEF Dry!Next, Writes
<1> QED BY <1>1, <1>2, PTL DEF Dry!Spec

---------------------------------------------------------------------------
(* The refinement                                                          *)

(* A question put is one step of ChainReads, answered at once or not. *)
LEMMA AskRefines ==
  ASSUME ChainInv, NEW r \in Askers, NEW force \in BOOLEAN, Dry!GetMyPositions(r, force)
  PROVE  Dry!Reads!Next
<1>1. asked[r] = {} /\ UNCHANGED <<chain, value>>
  BY AskSteps
<1>2. CASE /\ value # {} /\ answer' = [answer EXCEPT ![r] = value]
           /\ UNCHANGED <<asked, waiting, got, inflight>>
  <2>1. PICK s \in Snapshot : value = {s}
    BY <1>2 DEF ChainInv, ChainTypeOK, Maybe
  <2>2. Dry!Reads!NotAfter(s, chain)
    BY <2>1 DEF ChainInv, SeenIsPast
  <2>3. /\ asked' = [q \in Askers |-> IF q \in {r} THEN {} ELSE asked[q]]
        /\ answer' = [q \in Askers |-> IF q \in {r} THEN {s} ELSE answer[q]]
        /\ answer'[r] = {s}
    BY <1>1, <1>2, <2>1 DEF ChainInv, ChainTypeOK
  <2>4. Dry!Reads!Answer({r}, s)
    BY <1>1, <2>2, <2>3 DEF Dry!Reads!Answer
  <2>5. s \in UNION {answer'[q] : q \in {r}}
    BY <2>3
  <2> QED BY <2>4, <2>5 DEF Dry!Reads!Next
<1>3. CASE /\ answer' = [answer EXCEPT ![r] = {}]
           /\ \E floor \in {chain, Dry!Nothing} : asked' = [asked EXCEPT ![r] = {floor}]
  <2>1. Dry!Reads!Nothing = Dry!Nothing
    BY Ordered DEF ChainInv, ChainTypeOK
  <2>2. Dry!Reads!Ask(r)
    BY <1>1, <1>3, <2>1 DEF Dry!Reads!Ask
  <2> QED BY <2>2 DEF Dry!Reads!Next
<1> QED BY <1>2, <1>3, AskSteps

(* A load that is stored answers everyone who awaits it. *)
LEMMA StoredRefines ==
  ASSUME ChainInv, NEW r \in Askers, Dry!Stored(r)
  PROVE  Dry!Reads!Next
<1> DEFINE R == {q \in Askers : waiting[q] = {r}}
<1>1. PICK s \in Snapshot : got[r] = {s}
  BY DEF Dry!Stored, ChainInv, ChainTypeOK, Maybe
<1>2. r \in R
  BY <1>1 DEF ChainInv, LoadsGoOn
<1>3. /\ answer' = [q \in Askers |-> IF q \in R THEN {s} ELSE answer[q]]
      /\ asked' = [q \in Askers |-> IF q \in R THEN {} ELSE asked[q]]
      /\ UNCHANGED chain
  BY <1>1 DEF Dry!Stored
<1>4. Dry!Reads!NotAfter(s, chain)
  BY <1>1 DEF ChainInv, SeenIsPast
<1>5. \A floor \in UNION {asked[q] : q \in R} : Dry!Reads!NotAfter(floor, s)
  BY <1>1 DEF ChainInv, RecentEnough
<1>6. Dry!Reads!Answer(R, s)
  BY <1>3, <1>4, <1>5 DEF Dry!Reads!Answer
<1>7. s \in UNION {answer'[q] : q \in R} /\ R \in SUBSET Askers
  BY <1>2, <1>3
<1> HIDE DEF R
<1> QED BY <1>6, <1>7 DEF Dry!Reads!Next

(* Every answer of the simulated chain is the chain as it was at some      *)
(* moment, not before a forced question was put, and the chain never goes  *)
(* back: DryRun implements ChainReads.                                     *)
THEOREM DryRunRefinesChainReads == Dry!Spec => Dry!ReadsAreTrue
<1>1. Dry!Init => Dry!Reads!Init
  BY DEF Dry!Init, Dry!Reads!Init, Dry!Nothing, Dry!Reads!Nothing
<1>2. ASSUME ChainInv, [Dry!Next]_(Dry!vars) PROVE [Dry!Reads!Next]_(Dry!Reads!vars)
  <2>1. ASSUME NEW r \in Askers, NEW force \in BOOLEAN, Dry!GetMyPositions(r, force)
        PROVE  Dry!Reads!Next
    BY <1>2, <2>1, AskRefines
  <2>2. ASSUME NEW r \in Askers, Dry!Stored(r) PROVE Dry!Reads!Next
    BY <1>2, <2>2, StoredRefines
  <2>3. CASE Writes
    <3>1. /\ chain' \in Snapshot /\ Dry!Reads!NotAfter(chain, chain') /\ UNCHANGED <<asked, answer>>
      BY <1>2, <2>3, WritesMove DEF ChainInv, ChainTypeOK
    <3>2. Dry!Reads!Forward
      BY <3>1 DEF Dry!Reads!Forward, Snapshot
    <3> QED BY <3>2 DEF Dry!Reads!Next
  <2>4. CASE Dry!Expire \/ (\E w \in Traders : Dry!DeployPosition(w)) \/ UNCHANGED Dry!vars
    BY <2>4 DEF Dry!Expire, Dry!DeployPosition, Dry!vars, Dry!memory, Dry!Reads!vars
  <2> QED BY <1>2, <2>1, <2>2, <2>3, <2>4 DEF Dry!Next, Writes
<1> QED BY <1>1, <1>2, ChainInvHolds, PTL DEF Dry!Spec, Dry!ReadsAreTrue, Dry!Reads!Spec

---------------------------------------------------------------------------
(* The watcher.  A pool held ever since the read began was collected or is  *)
(* on a page still to be asked for: entries only push it further back.      *)

Ahead(p) == \E i \in 1 .. Len(list) : list[i] = p /\ i > (leaf - 1) * PageSize
WatchInv ==
  /\ list \in Seq(Pools) /\ leaf \in Nat
  /\ leaf > 0 /\ ~quit => \A p \in since : p \in seen \/ Ahead(p)
  /\ leaf = 0 /\ ~quit => \A s \in found : s.reliable => since \subseteq s.pools

(* A list with one more pool, and one with one less. *)
LEMMA Inserted ==
  ASSUME list \in Seq(Pools), NEW i \in 1 .. Len(list) + 1, NEW p \in Pools,
         list' = Watch!InsertAt(list, i, p)
  PROVE  /\ list' \in Seq(Pools) /\ Len(list') = Len(list) + 1
         /\ \A j \in 1 .. Len(list) : list'[IF j < i THEN j ELSE j + 1] = list[j]
<1>1. Len(list) \in Nat /\ i \in Nat /\ i > 0 /\ i <= Len(list) + 1
  OBVIOUS
<1> DEFINE a == SubSeq(list, 1, i - 1)
           b == SubSeq(list, i, Len(list))
<1>2. /\ a \in Seq(Pools) /\ Len(a) = i - 1 /\ \A j \in 1 .. i - 1 : a[j] = list[j]
      /\ b \in Seq(Pools) /\ Len(b) = Len(list) - i + 1
      /\ \A j \in 1 .. Len(list) - i + 1 : b[j] = list[i + j - 1]
  BY <1>1
<1> HIDE DEF a, b
<1>3. list' = (a \o <<p>>) \o b
  BY DEF Watch!InsertAt, a, b
<1>4. /\ list' \in Seq(Pools) /\ Len(list') = Len(list) + 1
      /\ \A j \in 1 .. i - 1 : list'[j] = a[j]
      /\ \A j \in i + 1 .. Len(list) + 1 : list'[j] = b[j - i]
  BY <1>1, <1>2, <1>3
<1>5. ASSUME NEW j \in 1 .. Len(list) PROVE list'[IF j < i THEN j ELSE j + 1] = list[j]
  <2>1. CASE j < i
    BY <1>1, <1>2, <1>4, <2>1
  <2>2. CASE ~(j < i)
    <3>1. j + 1 \in i + 1 .. Len(list) + 1 /\ j + 1 - i \in 1 .. Len(list) - i + 1
      BY <1>1, <2>2
    <3>2. list'[j + 1] = b[j + 1 - i] /\ b[j + 1 - i] = list[i + (j + 1 - i) - 1]
      BY <1>2, <1>4, <3>1
    <3>3. i + (j + 1 - i) - 1 = j
      BY <1>1
    <3> QED BY <2>2, <3>2, <3>3
  <2> QED BY <2>1, <2>2
<1> QED BY <1>4, <1>5

LEMMA Removed ==
  ASSUME list \in Seq(Pools), NEW i \in 1 .. Len(list), list' = Watch!RemoveAt(list, i)
  PROVE  list' \in Seq(Pools)
<1>1. Len(list) \in Nat /\ i \in Nat /\ i > 0 /\ i <= Len(list)
  OBVIOUS
<1>2. SubSeq(list, 1, i - 1) \in Seq(Pools) /\ SubSeq(list, i + 1, Len(list)) \in Seq(Pools)
  BY <1>1
<1> QED BY <1>2 DEF Watch!RemoveAt

(* A page holds what stands on it. *)
LEMMA OnPage ==
  ASSUME list \in Seq(Pools), NEW n \in Nat, n > 0
  PROVE  /\ \A i \in 1 .. Len(list) : i > (n - 1) * PageSize /\ i <= n * PageSize =>
              list[i] \in Watch!ToSet(Watch!PageOf(n))
         /\ Len(Watch!PageOf(n)) < PageSize => Len(list) < n * PageSize
<1> DEFINE k == (n - 1) * PageSize
           m == n * PageSize
           top == Watch!Smaller(m, Len(list))
           leaves == SubSeq(list, k + 1, top)
<1>1. PageSize \in Nat /\ k \in Nat /\ m \in Nat /\ m = k + PageSize /\ Len(list) \in Nat
  BY StoreAssumption
<1> HIDE DEF k, m
<1>2. top \in Nat /\ top <= m /\ top <= Len(list) /\ (top = m \/ top = Len(list))
  BY <1>1 DEF Watch!Smaller
<1> HIDE DEF top
<1>3. /\ Watch!PageOf(n) = leaves
      /\ Len(leaves) = IF k + 1 <= top THEN top - k ELSE 0
      /\ \A j \in 1 .. top - k : leaves[j] = list[k + j]
  BY <1>1, <1>2 DEF Watch!PageOf, k, m, top
<1> HIDE DEF leaves
<1>4. ASSUME NEW i \in 1 .. Len(list), i > k, i <= m
      PROVE  list[i] \in Watch!ToSet(leaves)
  <2>1. i - k \in 1 .. top - k /\ k + (i - k) = i
    BY <1>1, <1>2, <1>4
  <2>2. i - k \in DOMAIN leaves /\ leaves[i - k] = list[i]
    BY <1>1, <1>2, <1>3, <2>1 DEF leaves
  <2> QED BY <2>2 DEF Watch!ToSet
<1>5. Len(leaves) < PageSize => Len(list) < m
  BY <1>1, <1>2, <1>3
<1> QED BY <1>3, <1>4, <1>5 DEF k, m

(* A pool entered while the list is read hides none of the others. *)
LEMMA EnterKeeps ==
  ASSUME WatchInv, Watch!Enter
  PROVE  WatchInv'
<1>1. PICK p \in Pools, i \in 1 .. Len(list) + 1 : list' = Watch!InsertAt(list, i, p)
  BY DEF Watch!Enter
<1>2. UNCHANGED <<leaf, seen, found, since, quit>>
  BY DEF Watch!Enter, Watch!reading
<1>3. /\ list' \in Seq(Pools) /\ Len(list') = Len(list) + 1 /\ Len(list) \in Nat
      /\ \A j \in 1 .. Len(list) : list'[IF j < i THEN j ELSE j + 1] = list[j]
  BY <1>1, Inserted DEF WatchInv
<1>4. ASSUME NEW q, Ahead(q) PROVE Ahead(q)'
  <2>1. PICK j \in 1 .. Len(list) : list[j] = q /\ j > (leaf - 1) * PageSize
    BY <1>4 DEF Ahead
  <2> DEFINE moved == IF j < i THEN j ELSE j + 1
  <2>2. moved \in 1 .. Len(list') /\ moved >= j
    BY <1>3
  <2>3. list'[moved] = q
    BY <1>3, <2>1
  <2>4. (leaf - 1) * PageSize \in Int /\ leaf' = leaf
    BY <1>2, StoreAssumption DEF WatchInv
  <2>5. moved > (leaf - 1) * PageSize
    BY <2>1, <2>2, <2>4
  <2> HIDE DEF moved
  <2> QED BY <2>2, <2>3, <2>4, <2>5 DEF Ahead
<1> QED BY <1>2, <1>3, <1>4 DEF WatchInv

LEMMA LeaveListKeeps ==
  ASSUME WatchInv, Watch!Leave
  PROVE  WatchInv'
<1>1. quit' = TRUE /\ UNCHANGED <<leaf, seen, found>>
  BY DEF Watch!Leave, Watch!reading
<1>2. PICK i \in 1 .. Len(list) : list' = Watch!RemoveAt(list, i)
  BY DEF Watch!Leave
<1>3. list' \in Seq(Pools)
  BY <1>2, Removed DEF WatchInv
<1> QED BY <1>1, <1>3 DEF WatchInv

(* A read begins with every pool held ahead of it. *)
LEMMA BeginKeeps ==
  ASSUME WatchInv, Watch!GetOpenPools
  PROVE  WatchInv'
<1>1. /\ leaf' = 1 /\ seen' = {} /\ found' = {} /\ since' = Watch!Held /\ list' = list
  BY DEF Watch!GetOpenPools
<1>2. (leaf' - 1) * PageSize = 0
  BY <1>1, StoreAssumption
<1>3. ASSUME NEW p \in since' PROVE Ahead(p)'
  <2>1. PICK i \in 1 .. Len(list) : list[i] = p
    BY <1>1, <1>3 DEF Watch!Held, Watch!ToSet, WatchInv
  <2> QED BY <1>1, <1>2, <2>1 DEF Ahead
<1> QED BY <1>1, <1>3 DEF WatchInv

(* A page is read.  After the last there is nothing ahead. *)
LEMMA PageKeeps ==
  ASSUME WatchInv, Watch!ReadPage
  PROVE  WatchInv'
<1> DEFINE collected == seen \cup Watch!ToSet(Watch!PageOf(leaf))
<1>1. /\ leaf > 0 /\ leaf \in Nat /\ list \in Seq(Pools) /\ Len(list) \in Nat /\ PageSize \in Nat
      /\ UNCHANGED <<list, since, quit>>
  BY StoreAssumption DEF Watch!ReadPage, WatchInv
<1>2. /\ \A i \in 1 .. Len(list) : i > (leaf - 1) * PageSize /\ i <= leaf * PageSize => list[i] \in collected
      /\ Len(Watch!PageOf(leaf)) < PageSize => Len(list) < leaf * PageSize
  BY <1>1, OnPage
<1>3. seen \subseteq collected
  OBVIOUS
<1>4. ASSUME NEW p \in since, ~quit
      PROVE  p \in collected \/ \E i \in 1 .. Len(list) : list[i] = p /\ i > leaf * PageSize
  <2>1. p \in seen \/ Ahead(p)
    BY <1>1, <1>4 DEF WatchInv
  <2>2. ASSUME NEW i \in 1 .. Len(list), list[i] = p, i > (leaf - 1) * PageSize
        PROVE  p \in collected \/ i > leaf * PageSize
    <3>1. leaf * PageSize \in Nat
      BY <1>1
    <3> HIDE DEF collected
    <3> QED BY <1>1, <1>2, <2>2, <3>1
  <2> QED BY <1>3, <2>1, <2>2 DEF Ahead
<1>5. PICK hasNext \in Watch!HasNext(leaf) :
        IF Watch!SawEndOfList(Watch!PageOf(leaf), hasNext) THEN Watch!Return(collected, TRUE)
        ELSE IF leaf = MaxPages THEN Watch!Return(collected, FALSE)
        ELSE leaf' = leaf + 1 /\ seen' = collected /\ UNCHANGED found
  BY DEF Watch!ReadPage
<1> HIDE DEF collected
<1>6. CASE Watch!SawEndOfList(Watch!PageOf(leaf), hasNext) /\ Watch!Return(collected, TRUE)
  <2>1. Len(list) <= leaf * PageSize
    <3>1. leaf * PageSize \in Nat
      BY <1>1
    <3>2. CASE hasNext = {}
      BY <1>1, <1>2, <1>6, <3>1, <3>2 DEF Watch!SawEndOfList
    <3>3. CASE hasNext = {Len(list) > leaf * PageSize} /\ hasNext # {}
      <4>1. hasNext = {FALSE}
        BY <1>6, <3>3 DEF Watch!SawEndOfList
      <4>2. ~(Len(list) > leaf * PageSize)
        BY <3>3, <4>1
      <4> QED BY <1>1, <3>1, <4>2
    <3> QED BY <1>5, <3>2, <3>3 DEF Watch!HasNext
  <2>2. ~quit => since \subseteq collected
    <3>1. leaf * PageSize \in Nat
      BY <1>1
    <3>2. \A i \in 1 .. Len(list) : ~(i > leaf * PageSize)
      BY <1>1, <2>1, <3>1
    <3> QED BY <1>4, <3>2
  <2>3. leaf' = 0 /\ found' = {[pools |-> collected, reliable |-> TRUE]}
    BY <1>6 DEF Watch!Return
  <2> QED BY <1>1, <2>2, <2>3 DEF WatchInv
<1>7. CASE Watch!Return(collected, FALSE)
  BY <1>1, <1>7 DEF WatchInv, Watch!Return
<1>8. CASE leaf' = leaf + 1 /\ seen' = collected /\ UNCHANGED found
  <2>1. (leaf' - 1) * PageSize = leaf * PageSize
    <3>1. leaf' - 1 = leaf
      BY <1>1, <1>8
    <3> QED BY <3>1
  <2>2. ASSUME NEW p \in since, ~quit PROVE p \in seen' \/ Ahead(p)'
    BY <1>1, <1>4, <1>8, <2>1, <2>2 DEF Ahead
  <2> QED BY <1>1, <1>8, <2>2 DEF WatchInv
<1> QED BY <1>5, <1>6, <1>7, <1>8

(* meteora-wallet-watcher.ts and follow-diff.ts: however the list is paged   *)
(* and whatever the wallet enters meanwhile, no mirror is closed for a pool *)
(* it never left.                                                          *)
THEOREM NoMirrorIsDropped == Watch!Spec => []Watch!NoFalseExit
<1>1. Watch!Init => WatchInv
  BY StoreAssumption DEF Watch!Init, WatchInv
<1>2. ASSUME WatchInv, [Watch!Next]_(Watch!vars) PROVE WatchInv'
  <2>1. CASE Watch!Enter \/ Watch!Leave \/ Watch!GetOpenPools \/ Watch!ReadPage
    BY <1>2, <2>1, EnterKeeps, LeaveListKeeps, BeginKeeps, PageKeeps
  <2>2. CASE Watch!PageFails
    BY <1>2, <2>2 DEF Watch!PageFails, Watch!Return, WatchInv
  <2>3. CASE UNCHANGED Watch!vars
    BY <1>2, <2>3 DEF Watch!vars, Watch!reading, WatchInv, Ahead
  <2> QED BY <1>2, <2>1, <2>2, <2>3 DEF Watch!Next
<1>3. ASSUME WatchInv PROVE Watch!NoFalseExit
  <2> SUFFICES ASSUME leaf = 0, ~quit, NEW s \in found
               PROVE  Watch!Exits(s, since) \cap since = {}
    BY DEF Watch!NoFalseExit
  <2>1. s.reliable => since \subseteq s.pools
    BY <1>3 DEF WatchInv
  <2> DEFINE mirrors == {[pool |-> p] : p \in since}
  <2>2. Watch!DiffFollowedWallet({since}, s, {}, mirrors).closes
          = {m \in mirrors : s.reliable /\ m.pool \notin s.pools}
    BY DEF Watch!DiffFollowedWallet
  <2>3. \A m \in mirrors : m.pool \in since
    OBVIOUS
  <2>4. Watch!DiffFollowedWallet({since}, s, {}, mirrors).closes = {}
    BY <2>1, <2>2, <2>3
  <2>5. Watch!Exits(s, since) = {}
    BY <2>4 DEF Watch!Exits
  <2> QED BY <2>5
<1> QED BY <1>1, <1>2, <1>3, PTL DEF Watch!Spec

---------------------------------------------------------------------------
(* The settings.  One update_config at a time reads the file, changes it    *)
(* and writes it; what the form sends was typed.                           *)

FormTyped ==
  /\ DOMAIN edit = Form!Callers
  /\ \A c \in Form!Callers : DOMAIN edit[c] = {"step", "changes", "copy"}
  /\ DOMAIN form = {"open", "values", "initial"}
  /\ form.open => DOMAIN form.values = Options
  /\ \A f \in config : DOMAIN f = Options

(* Who holds the lock.                                                     *)
LockInv == \A c \in Form!Callers : edit[c].step \in {"load", "write", "fill", "reload"} => lock = {c}

(* The copy is the file as it is wanted, with the changes asked for.       *)
Wanting(c) ==
  /\ DOMAIN edit[c].copy = Options
  /\ \A k \in Options : edit[c].copy[k] = IF k \in DOMAIN edit[c].changes THEN edit[c].changes[k]
                                          ELSE wanted[k]
CopyInv == \A c \in Form!Callers : edit[c].step \in {"write", "fill"} => Wanting(c)

(* A key that was not typed into holds what it held when it was filled in, *)
(* and a request under way holds only keys typed into.                     *)
DirtyInv == form.open => \A k \in Options \ edited : form.values[k] = form.initial[k]
MeantInv ==
  edit["form"].step # "idle" =>
    form.open /\ (edit["form"].step # "answer" => DOMAIN edit["form"].changes \subseteq edited)

FormInv == FormTyped /\ LockInv /\ CopyInv /\ DirtyInv /\ MeantInv /\ Form!NoChangeUndone

(* One caller's request changes. *)
LEMMA EditMoves ==
  ASSUME FormTyped, NEW c \in Form!Callers, NEW r, edit' = [edit EXCEPT ![c] = r]
  PROVE  edit'[c] = r /\ DOMAIN edit' = Form!Callers
         /\ \A d \in Form!Callers : d # c => edit'[d] = edit[d]
  BY DEF FormTyped

(* Or it takes a step. *)
LEMMA EditSteps ==
  ASSUME FormTyped, NEW c \in Form!Callers, NEW from, NEW to, Form!Step(c, from, to)
  PROVE  /\ edit[c].step = from /\ edit'[c].step = to
         /\ edit'[c].changes = edit[c].changes /\ edit'[c].copy = edit[c].copy
         /\ DOMAIN edit' = Form!Callers /\ DOMAIN edit'[c] = {"step", "changes", "copy"}
         /\ \A d \in Form!Callers : d # c => edit'[d] = edit[d]
<1>1. edit[c].step = from /\ edit' = [edit EXCEPT ![c].step = to]
  BY DEF Form!Step
<1>2. DOMAIN edit = Form!Callers /\ DOMAIN edit[c] = {"step", "changes", "copy"}
  BY DEF FormTyped
<1>3. edit'[c] = [edit[c] EXCEPT !.step = to] /\ DOMAIN edit' = Form!Callers
      /\ \A d \in Form!Callers : d # c => edit'[d] = edit[d]
  BY <1>1, <1>2
<1> QED BY <1>1, <1>2, <1>3

(* The form is a caller, and a request dropped is idle. *)
LEMMA Idles ==
  /\ "form" \in Form!Callers /\ Form!NoCall.step = "idle"
  /\ DOMAIN Form!NoCall = {"step", "changes", "copy"}
  BY DEF Form!Callers, Form!NoCall

(* A request that is dropped disturbs nothing. *)
LEMMA DropKeeps ==
  ASSUME FormInv, NEW c \in Form!Callers, edit' = [edit EXCEPT ![c] = Form!NoCall],
         UNCHANGED <<config, form, edited, wanted>>,
         lock' = lock \/ edit[c].step \in {"load", "write", "fill", "reload"}
  PROVE  FormInv'
<1>1. /\ edit'[c] = Form!NoCall /\ DOMAIN edit' = Form!Callers
      /\ \A d \in Form!Callers : d # c => edit'[d] = edit[d]
  BY EditMoves DEF FormInv
<1>2. FormTyped'
  BY <1>1, Idles DEF FormInv, FormTyped
<1>3. LockInv'
  <2> SUFFICES ASSUME NEW d \in Form!Callers, edit'[d].step \in {"load", "write", "fill", "reload"}
               PROVE  lock' = {d}
    BY DEF LockInv
  <2>1. d # c /\ edit'[d] = edit[d]
    BY <1>1, Idles
  <2>2. lock = {d} /\ (edit[c].step \in {"load", "write", "fill", "reload"} => lock = {c})
    BY <2>1 DEF FormInv, LockInv
  <2> QED BY <2>1, <2>2
<1>4. CopyInv'
  <2> SUFFICES ASSUME NEW d \in Form!Callers, edit'[d].step \in {"write", "fill"}
               PROVE  Wanting(d)'
    BY DEF CopyInv
  <2>1. d # c /\ edit'[d] = edit[d]
    BY <1>1, Idles
  <2> QED BY <2>1 DEF FormInv, CopyInv, Wanting
<1>5. DirtyInv' /\ Form!NoChangeUndone'
  BY DEF FormInv, DirtyInv, Form!NoChangeUndone
<1>6. MeantInv'
  BY <1>1, Idles DEF FormInv, MeantInv
<1> QED BY <1>2, <1>3, <1>4, <1>5, <1>6 DEF FormInv

(* What touches neither requests, file nor form. *)
LEMMA IdleKeeps ==
  ASSUME FormInv, UNCHANGED <<config, edit, lock, form, edited, wanted>>
  PROVE  FormInv'
<1>1. FormTyped' /\ LockInv' /\ DirtyInv' /\ MeantInv' /\ Form!NoChangeUndone'
  BY DEF FormInv, FormTyped, LockInv, DirtyInv, MeantInv, Form!NoChangeUndone
<1>2. CopyInv'
  BY DEF FormInv, CopyInv, Wanting
<1> QED BY <1>1, <1>2 DEF FormInv

(* And stops: locks and requests are gone. *)
LEMMA StopKeeps ==
  ASSUME FormInv, Form!Stop
  PROVE  FormInv'
<1>1. edit' = [c \in Form!Callers |-> Form!NoCall] /\ UNCHANGED <<config, form, edited, wanted>>
  BY DEF Form!Stop, Form!page
<1>2. DOMAIN edit' = Form!Callers /\ \A c \in Form!Callers : edit'[c] = Form!NoCall
  BY <1>1
<1>3. FormTyped' /\ LockInv' /\ CopyInv' /\ MeantInv'
  BY <1>1, <1>2, Idles DEF FormInv, FormTyped, LockInv, CopyInv, MeantInv
<1> QED BY <1>1, <1>3 DEF FormInv, DirtyInv, Form!NoChangeUndone

(* The form is filled, left, and typed into. *)
LEMMA OpenKeeps ==
  ASSUME FormInv, Form!OpenForm
  PROVE  FormInv'
<1> DEFINE filled == IF Form!Read(config) = {} THEN [k \in Options |-> "blank"]
                     ELSE CHOOSE f \in config : TRUE
<1>0. DOMAIN filled = Options
  <2>1. CASE Form!Read(config) = {}
    BY <2>1
  <2>2. CASE Form!Read(config) # {}
    <3>1. \E f \in config : TRUE
      BY <2>2 DEF Form!Read
    <3>2. (CHOOSE f \in config : TRUE) \in config
      BY <3>1
    <3> QED BY <2>2, <3>2 DEF FormInv, FormTyped
  <2> QED BY <2>1, <2>2
<1>1. form' = [open |-> TRUE, values |-> filled, initial |-> filled]
  BY DEF Form!OpenForm
<1> HIDE DEF filled
<1>2. ~form.open /\ UNCHANGED <<config, edit, lock, wanted>>
  BY DEF Form!OpenForm
<1>3. FormTyped' /\ DirtyInv'
  BY <1>0, <1>1, <1>2 DEF FormInv, FormTyped, DirtyInv
<1>4. MeantInv'
  BY <1>2 DEF FormInv, MeantInv
<1> QED BY <1>2, <1>3, <1>4 DEF FormInv, LockInv, CopyInv, Wanting, Form!NoChangeUndone

LEMMA LeaveKeeps ==
  ASSUME FormInv, Form!Leave
  PROVE  FormInv'
<1>1. edit["form"].step = "idle" /\ form' = Form!NoForm /\ UNCHANGED <<config, edit, lock, wanted>>
  BY Idles DEF Form!Leave
<1>2. ~form'.open /\ DOMAIN form' = {"open", "values", "initial"}
  BY <1>1 DEF Form!NoForm
<1>3. FormTyped' /\ DirtyInv' /\ MeantInv'
  BY <1>1, <1>2 DEF FormInv, FormTyped, DirtyInv, MeantInv
<1> QED BY <1>1, <1>3 DEF FormInv, LockInv, CopyInv, Wanting, Form!NoChangeUndone

LEMMA TypeKeeps ==
  ASSUME FormInv, Form!Type
  PROVE  FormInv'
<1>1. edit["form"].step = "idle" /\ form.open /\ UNCHANGED <<config, edit, lock, wanted>>
  BY Idles DEF Form!Type
<1>2. PICK k \in Options, v \in Values :
        form' = [form EXCEPT !.values[k] = v] /\ edited' = edited \cup {k}
  BY DEF Form!Type
<1>3. /\ DOMAIN form' = DOMAIN form /\ form'.open = form.open /\ form'.initial = form.initial
      /\ form'.values = [form.values EXCEPT ![k] = v]
  BY <1>2 DEF FormInv, FormTyped
<1>4. FormTyped'
  BY <1>1, <1>3 DEF FormInv, FormTyped
<1>5. DirtyInv'
  <2> SUFFICES ASSUME NEW j \in Options \ edited' PROVE form'.values[j] = form'.initial[j]
    BY DEF DirtyInv
  <2>1. j # k /\ j \in Options \ edited /\ form.values[j] = form.initial[j]
    BY <1>1, <1>2 DEF FormInv, DirtyInv
  <2>2. form'.values[j] = form.values[j]
    BY <1>1, <1>3, <2>1 DEF FormInv, FormTyped
  <2> QED BY <1>3, <2>1, <2>2
<1>6. MeantInv'
  BY <1>1 DEF MeantInv
<1> QED BY <1>1, <1>4, <1>5, <1>6 DEF FormInv, LockInv, CopyInv, Wanting, Form!NoChangeUndone

(* A request is sent. *)
LEMMA AskKeepsForm ==
  ASSUME FormInv, NEW c \in Form!Callers, NEW changes, Form!Ask(c, changes),
         c = "form" => form.open /\ DOMAIN changes \subseteq edited
  PROVE  FormInv'
<1>1. /\ edit' = [edit EXCEPT ![c] = [Form!NoCall EXCEPT !.step = "asked", !.changes = changes]]
      /\ UNCHANGED <<config, lock, form, edited, wanted>>
  BY DEF Form!Ask, Form!page
<1> DEFINE r == [Form!NoCall EXCEPT !.step = "asked", !.changes = changes]
<1>2. r.step = "asked" /\ r.changes = changes /\ DOMAIN r = {"step", "changes", "copy"}
  BY DEF Form!NoCall
<1> HIDE DEF r
<1>3. /\ edit'[c] = r /\ DOMAIN edit' = Form!Callers
      /\ \A d \in Form!Callers : d # c => edit'[d] = edit[d]
  BY <1>1, EditMoves DEF FormInv, r
<1>4. FormTyped'
  BY <1>1, <1>2, <1>3 DEF FormInv, FormTyped
<1>5. LockInv' /\ CopyInv'
  BY <1>1, <1>2, <1>3 DEF FormInv, LockInv, CopyInv, Wanting
<1>6. MeantInv'
  BY <1>1, <1>2, <1>3, Idles DEF FormInv, MeantInv
<1> QED BY <1>1, <1>4, <1>5, <1>6 DEF FormInv, DirtyInv, Form!NoChangeUndone

LEMMA SaveKeeps ==
  ASSUME FormInv, Form!Save \/ Form!AskOther
  PROVE  FormInv'
<1>1. CASE Form!Save
  <2> DEFINE changes == [k \in Form!DirtyKeys |-> form.values[k]]
  <2>1. form.open /\ Form!Ask("form", changes)
    BY <1>1 DEF Form!Save
  <2>2. DOMAIN changes \subseteq edited
    BY <2>1 DEF FormInv, DirtyInv, Form!DirtyKeys
  <2> HIDE DEF changes
  <2> QED BY <2>1, <2>2, AskKeepsForm, Idles
<1>2. CASE Form!AskOther
  <2>1. PICK c \in Others, k \in Options, v \in Values \ {"blank"} : Form!Ask(c, [x \in {k} |-> v])
    BY <1>2 DEF Form!AskOther
  <2>2. c \in Form!Callers /\ c # "form"
    BY StoreAssumption DEF Form!Callers
  <2> QED BY <2>1, <2>2, AskKeepsForm
<1> QED BY <1>1, <1>2

(* A request takes its turn with the lock. *)
LEMMA AcquireKeeps ==
  ASSUME FormInv, NEW c \in Form!Callers, Form!Acquire(c)
  PROVE  FormInv'
<1>1. /\ edit[c].step = "asked"
      /\ UNCHANGED <<config, form, edited, wanted>>
  BY DEF Form!Acquire, Form!page
<1>2. CASE Form!Refuse(c) /\ UNCHANGED lock
  BY <1>1, <1>2, DropKeeps DEF Form!Refuse
<1>3. CASE lock = {} /\ Form!Step(c, "asked", "load") /\ lock' = {c}
  <2>1. /\ edit'[c].step = "load" /\ edit'[c].changes = edit[c].changes
        /\ DOMAIN edit' = Form!Callers /\ DOMAIN edit'[c] = {"step", "changes", "copy"}
        /\ \A d \in Form!Callers : d # c => edit'[d] = edit[d]
    BY <1>3, EditSteps DEF FormInv
  <2>2. FormTyped'
    BY <1>1, <2>1 DEF FormInv, FormTyped
  <2>3. LockInv'
    BY <1>3, <2>1 DEF FormInv, LockInv
  <2>4. CopyInv'
    BY <1>1, <2>1 DEF FormInv, CopyInv, Wanting
  <2>5. MeantInv'
    BY <1>1, <2>1, Idles DEF FormInv, MeantInv
  <2> QED BY <1>1, <2>2, <2>3, <2>4, <2>5 DEF FormInv, DirtyInv, Form!NoChangeUndone
<1> QED BY <1>2, <1>3 DEF Form!Acquire, Form!Free

(* It reads the file, unless a value is refused. *)
LEMMA LoadKeeps ==
  ASSUME FormInv, NEW c \in Form!Callers, Form!Load(c)
  PROVE  FormInv'
<1>1. edit[c].step = "load" /\ UNCHANGED <<config, form, edited, wanted>>
  BY DEF Form!Load, Form!page
<1>2. CASE Form!Refuse(c)
  BY <1>1, <1>2, DropKeeps DEF Form!Refuse
<1>3. ASSUME NEW f \in config, UNCHANGED lock,
             edit' = [edit EXCEPT ![c].step = "write", ![c].copy = Form!Applied(f, edit[c].changes)]
      PROVE  FormInv'
  <2> DEFINE copy == Form!Applied(f, edit[c].changes)
  <2>1. /\ DOMAIN copy = Options
        /\ \A k \in Options : copy[k] = IF k \in DOMAIN edit[c].changes THEN edit[c].changes[k] ELSE wanted[k]
    BY DEF Form!Applied, FormInv, Form!NoChangeUndone
  <2> HIDE DEF copy
  <2>2. /\ edit'[c].step = "write" /\ edit'[c].copy = copy /\ edit'[c].changes = edit[c].changes
        /\ DOMAIN edit' = Form!Callers /\ DOMAIN edit'[c] = {"step", "changes", "copy"}
        /\ \A d \in Form!Callers : d # c => edit'[d] = edit[d]
    BY <1>3 DEF FormInv, FormTyped, copy
  <2>3. FormTyped'
    BY <1>1, <2>2 DEF FormInv, FormTyped
  <2>4. LockInv'
    BY <1>1, <1>3, <2>2 DEF FormInv, LockInv
  <2>5. ASSUME NEW d \in Form!Callers, edit'[d].step \in {"write", "fill"} PROVE Wanting(d)'
    <3>1. CASE d = c
      BY <1>1, <2>1, <2>2, <3>1 DEF Wanting
    <3>2. CASE d # c
      BY <1>1, <2>2, <2>5, <3>2 DEF FormInv, CopyInv, Wanting
    <3> QED BY <3>1, <3>2
  <2>6. CopyInv'
    BY <2>5 DEF CopyInv
  <2>7. MeantInv'
    BY <1>1, <2>2, Idles DEF FormInv, MeantInv
  <2> QED BY <1>1, <2>3, <2>4, <2>6, <2>7 DEF FormInv, DirtyInv, Form!NoChangeUndone
<1> QED BY <1>2, <1>3 DEF Form!Load, Form!Read

(* The file is cut short. *)
LEMMA TruncateKeeps ==
  ASSUME FormInv, NEW c \in Form!Callers, Form!Truncate(c)
  PROVE  FormInv'
<1>1. config' = {} /\ UNCHANGED <<lock, form, edited, wanted>> /\ Form!Step(c, "write", "fill")
  BY DEF Form!Truncate, Form!page
<1>2. /\ edit[c].step = "write" /\ edit'[c].step = "fill"
      /\ edit'[c].changes = edit[c].changes /\ edit'[c].copy = edit[c].copy
      /\ DOMAIN edit' = Form!Callers /\ DOMAIN edit'[c] = {"step", "changes", "copy"}
      /\ \A d \in Form!Callers : d # c => edit'[d] = edit[d]
  BY <1>1, EditSteps DEF FormInv
<1>3. FormTyped'
  BY <1>1, <1>2 DEF FormInv, FormTyped
<1>4. LockInv'
  BY <1>1, <1>2 DEF FormInv, LockInv
<1>5. ASSUME NEW d \in Form!Callers, edit'[d].step \in {"write", "fill"} PROVE Wanting(d)'
  <2>1. Wanting(d)
    BY <1>2, <1>5 DEF FormInv, CopyInv
  <2> QED BY <1>1, <1>2, <2>1 DEF Wanting
<1>6. CopyInv'
  BY <1>5 DEF CopyInv
<1>7. MeantInv'
  BY <1>1, <1>2, Idles DEF FormInv, MeantInv
<1> QED BY <1>1, <1>3, <1>4, <1>6, <1>7 DEF FormInv, DirtyInv, Form!NoChangeUndone

(* And filled: what was asked for is what is wanted, for a form's request  *)
(* holds nothing else.                                                     *)
LEMMA FillKeeps ==
  ASSUME FormInv, NEW c \in Form!Callers, Form!Fill(c)
  PROVE  FormInv'
<1>1. /\ config' = {edit[c].copy} /\ UNCHANGED <<lock, form, edited>> /\ Form!Step(c, "fill", "reload")
      /\ wanted' = [k \in Options |-> IF k \in Form!MeantBy(c) THEN edit[c].changes[k] ELSE wanted[k]]
  BY DEF Form!Fill, Form!page
<1>2. /\ edit[c].step = "fill" /\ edit'[c].step = "reload"
      /\ edit'[c].changes = edit[c].changes /\ edit'[c].copy = edit[c].copy
      /\ DOMAIN edit' = Form!Callers /\ DOMAIN edit'[c] = {"step", "changes", "copy"}
      /\ \A d \in Form!Callers : d # c => edit'[d] = edit[d]
  BY <1>1, EditSteps DEF FormInv
<1>3. Wanting(c)
  BY <1>2 DEF FormInv, CopyInv
<1>4. Form!MeantBy(c) = DOMAIN edit[c].changes
  BY <1>2 DEF FormInv, MeantInv, Form!MeantBy
<1>5. Form!NoChangeUndone'
  BY <1>1, <1>3, <1>4 DEF Wanting, Form!NoChangeUndone
<1>6. FormTyped'
  BY <1>1, <1>2, <1>3 DEF FormInv, FormTyped, Wanting
<1>7. LockInv'
  BY <1>1, <1>2 DEF FormInv, LockInv
<1>8. ASSUME NEW d \in Form!Callers, edit'[d].step \in {"write", "fill"} PROVE FALSE
  <2>1. d # c /\ edit[d].step \in {"write", "fill"}
    BY <1>2, <1>8
  <2>2. lock = {c} /\ lock = {d}
    BY <1>2, <2>1 DEF FormInv, LockInv
  <2> QED BY <2>1, <2>2
<1>9. CopyInv' /\ MeantInv'
  BY <1>1, <1>2, <1>8, Idles DEF FormInv, CopyInv, MeantInv
<1> QED BY <1>1, <1>5, <1>6, <1>7, <1>9 DEF FormInv, DirtyInv

(* The running configuration is assigned, and the lock is free. *)
LEMMA ReloadKeeps ==
  ASSUME FormInv, NEW c \in Form!Callers, Form!Reload(c)
  PROVE  FormInv'
<1>1. lock' = {} /\ UNCHANGED <<config, form, edited, wanted>> /\ Form!Step(c, "reload", "answer")
  BY DEF Form!Reload, Form!page
<1>2. /\ edit[c].step = "reload" /\ edit'[c].step = "answer"
      /\ DOMAIN edit' = Form!Callers /\ DOMAIN edit'[c] = {"step", "changes", "copy"}
      /\ \A d \in Form!Callers : d # c => edit'[d] = edit[d]
  BY <1>1, EditSteps DEF FormInv
<1>3. FormTyped'
  BY <1>1, <1>2 DEF FormInv, FormTyped
<1>4. ASSUME NEW d \in Form!Callers, edit'[d].step \in {"load", "write", "fill", "reload"} PROVE FALSE
  <2>1. d # c /\ edit[d].step \in {"load", "write", "fill", "reload"}
    BY <1>2, <1>4
  <2>2. lock = {c} /\ lock = {d}
    BY <1>2, <2>1 DEF FormInv, LockInv
  <2> QED BY <2>1, <2>2
<1>5. LockInv' /\ CopyInv'
  BY <1>4 DEF LockInv, CopyInv
<1>6. MeantInv'
  BY <1>1, <1>2, Idles DEF FormInv, MeantInv
<1> QED BY <1>1, <1>3, <1>5, <1>6 DEF FormInv, DirtyInv, Form!NoChangeUndone

(* The caller is answered; the form takes what it shows for saved. *)
LEMMA AnswerKeeps ==
  ASSUME FormInv, NEW c \in Form!Callers, Form!Answer(c)
  PROVE  FormInv'
<1>1. /\ edit[c].step = "answer" /\ edit' = [edit EXCEPT ![c] = Form!NoCall]
      /\ UNCHANGED <<config, lock, wanted>>
  BY DEF Form!Answer, Form!Refuse
<1>2. CASE UNCHANGED <<form, edited>>
  BY <1>1, <1>2, DropKeeps
<1>3. CASE c = "form" /\ form' = [form EXCEPT !.initial = form.values] /\ edited' = {}
  <2>1. /\ edit'[c] = Form!NoCall /\ DOMAIN edit' = Form!Callers
        /\ \A d \in Form!Callers : d # c => edit'[d] = edit[d]
    BY <1>1, EditMoves DEF FormInv
  <2>2. /\ DOMAIN form' = DOMAIN form /\ form'.open = form.open
        /\ form'.initial = form.values /\ form'.values = form.values
    BY <1>3 DEF FormInv, FormTyped
  <2>3. FormTyped' /\ DirtyInv'
    BY <1>1, <2>1, <2>2, Idles DEF FormInv, FormTyped, DirtyInv
  <2>4. LockInv'
    BY <1>1, <2>1, Idles DEF FormInv, LockInv
  <2>5. CopyInv'
    BY <1>1, <2>1, Idles DEF FormInv, CopyInv, Wanting
  <2>6. MeantInv'
    BY <1>3, <2>1, Idles DEF MeantInv
  <2> QED BY <1>1, <2>3, <2>4, <2>5, <2>6 DEF FormInv, Form!NoChangeUndone
<1> QED BY <1>2, <1>3 DEF Form!Answer

(* ConfigForm.tsx and inflight.ts: a saved form changes what its operator   *)
(* typed and nothing else, and every key holds what was last asked for it. *)
THEOREM EditsStand == Form!Spec => []Form!NoChangeUndone
<1>1. ASSUME Form!Init PROVE FormInv
  <2>1. edit = [c \in Form!Callers |-> Form!NoCall] /\ form = Form!NoForm
        /\ config = {Defaults} /\ wanted = Defaults
    BY <1>1 DEF Form!Init
  <2>2. DOMAIN edit = Form!Callers /\ \A c \in Form!Callers : edit[c] = Form!NoCall
    BY <2>1
  <2>3. ~form.open /\ DOMAIN form = {"open", "values", "initial"}
    BY <2>1 DEF Form!NoForm
  <2>4. FormTyped /\ LockInv /\ CopyInv /\ DirtyInv /\ MeantInv
    BY <2>1, <2>2, <2>3, Idles, StoreAssumption DEF FormTyped, LockInv, CopyInv, DirtyInv, MeantInv
  <2> QED BY <2>1, <2>4 DEF FormInv, Form!NoChangeUndone
<1>2. ASSUME FormInv, [Form!Next]_(Form!vars) PROVE FormInv'
  <2>1. CASE Form!Boot
    BY <1>2, <2>1, IdleKeeps DEF Form!Boot, Form!page
  <2>2. CASE UNCHANGED Form!vars
    BY <1>2, <2>2, IdleKeeps DEF Form!vars, Form!page
  <2>3. CASE Form!Stop
    BY <1>2, <2>3, StopKeeps
  <2>4. CASE Form!OpenForm \/ Form!Leave \/ Form!Type
    BY <1>2, <2>4, OpenKeeps, LeaveKeeps, TypeKeeps
  <2>5. CASE Form!Save \/ Form!AskOther
    BY <1>2, <2>5, SaveKeeps
  <2>6. ASSUME NEW c \in Form!Callers,
               \/ Form!Acquire(c) \/ Form!Load(c) \/ Form!Truncate(c) \/ Form!Fill(c)
               \/ Form!Reload(c) \/ Form!Answer(c)
        PROVE  FormInv'
    BY <1>2, <2>6, AcquireKeeps, LoadKeeps, TruncateKeeps, FillKeeps, ReloadKeeps, AnswerKeeps
  <2> QED BY <1>2, <2>1, <2>2, <2>3, <2>4, <2>5, <2>6 DEF Form!Next
<1>3. FormInv => Form!NoChangeUndone
  BY DEF FormInv
<1> QED BY <1>1, <1>2, <1>3, PTL DEF Form!Spec

---------------------------------------------------------------------------
(* The chat.  Only the last turn is read; its answer comes once, while its  *)
(* question is the last bubble.                                            *)

Frame  == {"start", "finish", "done", "error", "end", "reset"}
Bubble == [role : {"user", "assistant"}, turn : Talk!Turns]
Asked(t)    == [role |-> "user", turn |-> t]
Answered(t) == [role |-> "assistant", turn |-> t]
ChatTyped ==
  /\ turn \in 0 .. MaxTurns /\ messages \in Seq(Bubble)
  /\ reader \in [Talk!Turns -> {"reads", "replied", "done"}]
  /\ DOMAIN bridge = Talk!Turns /\ \A t \in Talk!Turns : DOMAIN bridge[t] = {"step", "tools"}
  /\ socket \in [Talk!Turns -> Seq(Frame)]

(* One turn is read at a time, and those to come have not begun.           *)
TurnInv ==
  \A t \in Talk!Turns :
    /\ reader[t] # "done" => t = turn /\ streaming
    /\ t > turn => bridge[t].step = "none" /\ socket[t] = <<>>

(* The frame of the answer is sent once, at the end, and read once.        *)
DoneAt(q) == {i \in 1 .. Len(q) : q[i] = "done"}
FrameInv ==
  \A t \in Talk!Turns :
    /\ bridge[t].step # "over" => DoneAt(socket[t]) = {} /\ reader[t] # "replied"
    /\ reader[t] = "replied" => DoneAt(socket[t]) = {}
    /\ \A i, j \in DoneAt(socket[t]) : i = j

(* The bubbles.                                                            *)
PairInv ==
  /\ \A i \in 1 .. Len(messages) : messages[i].role = "assistant" =>
       i > 1 /\ messages[i - 1] = Asked(messages[i].turn)
  /\ \A t \in Talk!Turns : reader[t] = "reads" =>
       Len(messages) > 0 /\ messages[Len(messages)] = Asked(t)
Told(t) == \E i \in 1 .. Len(messages) : messages[i] = Answered(t)
ToldInv ==
  \A t \in Talk!Turns :
    /\ reader[t] = "replied" => Told(t)
    /\ t <= turn /\ reader[t] = "done" => t \in stopped \cup failed \/ Told(t)

ChatInv == ChatTyped /\ TurnInv /\ FrameInv /\ PairInv /\ ToldInv

(* What frames put at the end of a stream leave of its answer. *)
LEMMA PutDone ==
  ASSUME NEW q \in Seq(Frame), NEW fs \in Seq(Frame)
  PROVE  /\ q \o fs \in Seq(Frame)
         /\ DoneAt(q) = {} /\ DoneAt(fs) = {} => DoneAt(q \o fs) = {}
         /\ DoneAt(q) = {} /\ fs = <<"done", "end">> => \A i, j \in DoneAt(q \o fs) : i = j
<1>1. /\ q \o fs \in Seq(Frame) /\ Len(q \o fs) = Len(q) + Len(fs) /\ Len(q) \in Nat /\ Len(fs) \in Nat
      /\ \A i \in 1 .. Len(q) : (q \o fs)[i] = q[i]
      /\ \A i \in Len(q) + 1 .. Len(q) + Len(fs) : (q \o fs)[i] = fs[i - Len(q)]
  OBVIOUS
<1> DEFINE p == q \o fs
<1> HIDE DEF p
<1>2. ASSUME NEW i \in DoneAt(p), DoneAt(q) = {}
      PROVE  i \in Nat /\ i > Len(q) /\ i - Len(q) \in DoneAt(fs)
  <2>1. i \in 1 .. Len(q) + Len(fs) /\ p[i] = "done"
    BY <1>1 DEF DoneAt, p
  <2>2. ~(i \in 1 .. Len(q))
    BY <1>1, <1>2, <2>1 DEF DoneAt, p
  <2>3. i > Len(q) /\ i \in Nat
    BY <1>1, <2>1, <2>2
  <2>4. fs[i - Len(q)] = "done" /\ i - Len(q) \in 1 .. Len(fs)
    BY <1>1, <2>1, <2>3 DEF p
  <2> QED BY <2>3, <2>4 DEF DoneAt
<1>3. DoneAt(q) = {} /\ DoneAt(fs) = {} => DoneAt(p) = {}
  BY <1>2
<1>4. ASSUME DoneAt(q) = {}, fs = <<"done", "end">>, NEW i \in DoneAt(p), NEW j \in DoneAt(p)
      PROVE  i = j
  <2>1. \A k \in DoneAt(fs) : k = 1
    BY <1>4 DEF DoneAt
  <2>2. i - Len(q) = 1 /\ j - Len(q) = 1 /\ i \in Nat /\ j \in Nat
    BY <1>2, <1>4, <2>1
  <2> QED BY <1>1, <2>2
<1> QED BY <1>1, <1>3, <1>4 DEF p

(* And what reading one frame leaves of it. *)
LEMMA TailDone ==
  ASSUME NEW q \in Seq(Frame), q # <<>>
  PROVE  /\ Tail(q) \in Seq(Frame) /\ Head(q) \in Frame
         /\ DoneAt(q) = {} => DoneAt(Tail(q)) = {} /\ Head(q) # "done"
         /\ (\A i, j \in DoneAt(q) : i = j) =>
              /\ \A i, j \in DoneAt(Tail(q)) : i = j
              /\ Head(q) = "done" => DoneAt(Tail(q)) = {}
<1>1. /\ Tail(q) \in Seq(Frame) /\ Len(q) \in Nat /\ Len(q) > 0 /\ Len(Tail(q)) = Len(q) - 1
      /\ Head(q) = q[1] /\ Head(q) \in Frame
      /\ \A i \in 1 .. Len(q) - 1 : Tail(q)[i] = q[i + 1]
  OBVIOUS
<1>2. ASSUME NEW i \in DoneAt(Tail(q))
      PROVE  i \in Nat /\ i > 0 /\ i + 1 \in DoneAt(q)
  BY <1>1 DEF DoneAt
<1>3. Head(q) = "done" => 1 \in DoneAt(q)
  BY <1>1 DEF DoneAt
<1>4. DoneAt(q) = {} => DoneAt(Tail(q)) = {} /\ Head(q) # "done"
  BY <1>2, <1>3
<1>5. ASSUME \A i, j \in DoneAt(q) : i = j
      PROVE  /\ \A i, j \in DoneAt(Tail(q)) : i = j
             /\ Head(q) = "done" => DoneAt(Tail(q)) = {}
  <2>1. ASSUME NEW i \in DoneAt(Tail(q)), NEW j \in DoneAt(Tail(q)) PROVE i = j
    <3>1. i \in Nat /\ j \in Nat /\ i + 1 = j + 1
      BY <1>2, <1>5
    <3> QED BY <3>1
  <2>2. ASSUME Head(q) = "done", NEW i \in DoneAt(Tail(q)) PROVE FALSE
    <3>1. i \in Nat /\ i > 0 /\ i + 1 = 1
      BY <1>2, <1>3, <1>5, <2>2
    <3> QED BY <3>1
  <2> QED BY <2>1, <2>2
<1> QED BY <1>1, <1>4, <1>5

(* A bubble more changes none of those before. *)
LEMMA Bubbles ==
  ASSUME ChatTyped, NEW b \in Bubble, messages' = Append(messages, b)
  PROVE  /\ messages' \in Seq(Bubble) /\ Len(messages) \in Nat /\ Len(messages') = Len(messages) + 1
         /\ messages'[Len(messages')] = b
         /\ \A i \in 1 .. Len(messages) : messages'[i] = messages[i]
         /\ \A t : Told(t) => Told(t)'
<1>1. /\ messages' \in Seq(Bubble) /\ Len(messages) \in Nat /\ Len(messages') = Len(messages) + 1
      /\ messages'[Len(messages')] = b
      /\ \A i \in 1 .. Len(messages) : messages'[i] = messages[i]
  BY DEF ChatTyped
<1>2. ASSUME NEW t, Told(t) PROVE Told(t)'
  <2>1. PICK i \in 1 .. Len(messages) : messages[i] = Answered(t)
    BY <1>2 DEF Told
  <2>2. i \in 1 .. Len(messages') /\ messages'[i] = Answered(t)
    BY <1>1, <2>1 DEF Answered
  <2> QED BY <2>2 DEF Told, Answered
<1> QED BY <1>1, <1>2

(* A question is asked when none is read. *)
LEMMA SendKeeps ==
  ASSUME ChatInv, Talk!SendQuestion
  PROVE  ChatInv'
<1> DEFINE t == turn + 1
<1>1. /\ ~streaming /\ turn < MaxTurns /\ turn' = t
      /\ messages' = Append(messages, Asked(t))
      /\ reader' = [reader EXCEPT ![t] = "reads"] /\ bridge' = [bridge EXCEPT ![t].step = "asked"]
      /\ streaming' = TRUE /\ UNCHANGED <<socket, stopped, failed>>
  BY DEF Talk!SendQuestion, Talk!Idle, Asked
<1>2. /\ turn \in Nat /\ t \in Nat /\ t = turn + 1 /\ t \in Talk!Turns /\ MaxTurns \in Nat
      /\ t \in 0 .. MaxTurns
  BY <1>1, StoreAssumption DEF ChatInv, ChatTyped, Talk!Turns
<1>3. Asked(t) \in Bubble
  BY <1>2 DEF Asked, Bubble
<1> HIDE DEF t
<1>4. /\ messages' \in Seq(Bubble) /\ Len(messages) \in Nat /\ Len(messages') = Len(messages) + 1
      /\ messages'[Len(messages')] = Asked(t)
      /\ \A i \in 1 .. Len(messages) : messages'[i] = messages[i]
      /\ \A u : Told(u) => Told(u)'
  BY <1>1, <1>3, Bubbles DEF ChatInv
<1>5. /\ reader' \in [Talk!Turns -> {"reads", "replied", "done"}] /\ reader'[t] = "reads"
      /\ \A u \in Talk!Turns : u # t => reader'[u] = reader[u]
  BY <1>1, <1>2 DEF ChatInv, ChatTyped
<1>6. /\ DOMAIN bridge' = Talk!Turns /\ bridge'[t].step = "asked"
      /\ DOMAIN bridge'[t] = {"step", "tools"}
      /\ \A u \in Talk!Turns : u # t => bridge'[u] = bridge[u]
  BY <1>1, <1>2 DEF ChatInv, ChatTyped
<1>7. \A u \in Talk!Turns : reader[u] = "done"
  BY <1>1 DEF ChatInv, TurnInv
<1>8. bridge[t].step = "none" /\ socket[t] = <<>>
  BY <1>2 DEF ChatInv, TurnInv
<1>9. ChatTyped'
  BY <1>1, <1>2, <1>4, <1>5, <1>6 DEF ChatInv, ChatTyped
<1>10. TurnInv'
  <2> SUFFICES ASSUME NEW u \in Talk!Turns
               PROVE  /\ reader'[u] # "done" => u = turn' /\ streaming'
                      /\ u > turn' => bridge'[u].step = "none" /\ socket'[u] = <<>>
    BY DEF TurnInv
  <2>1. reader'[u] # "done" => u = turn' /\ streaming'
    BY <1>1, <1>5, <1>7
  <2>2. ASSUME u > turn' PROVE bridge'[u].step = "none" /\ socket'[u] = <<>>
    <3>1. u \in Nat /\ u > turn /\ u # t
      BY <1>1, <1>2, <2>2, StoreAssumption DEF Talk!Turns
    <3> QED BY <1>1, <1>6, <3>1 DEF ChatInv, TurnInv
  <2> QED BY <2>1, <2>2
<1>11. FrameInv'
  <2> SUFFICES ASSUME NEW u \in Talk!Turns
               PROVE  /\ bridge'[u].step # "over" => DoneAt(socket'[u]) = {} /\ reader'[u] # "replied"
                      /\ reader'[u] = "replied" => DoneAt(socket'[u]) = {}
                      /\ \A i, j \in DoneAt(socket'[u]) : i = j
    BY DEF FrameInv, DoneAt
  <2>1. socket'[u] = socket[u]
    BY <1>1
  <2>2. CASE u = t
    <3>1. DoneAt(socket'[u]) = {} /\ reader'[u] = "reads"
      BY <1>5, <1>8, <2>1, <2>2 DEF ChatInv, FrameInv
    <3> QED BY <3>1
  <2>3. CASE u # t
    <3>1. bridge'[u] = bridge[u] /\ reader'[u] = reader[u]
      BY <1>5, <1>6, <2>3
    <3> QED BY <2>1, <3>1 DEF ChatInv, FrameInv
  <2> QED BY <2>2, <2>3
<1>12. PairInv'
  <2>1. ASSUME NEW i \in 1 .. Len(messages'), messages'[i].role = "assistant"
        PROVE  i > 1 /\ messages'[i - 1] = Asked(messages'[i].turn)
    <3>1. Asked(t).role = "user"
      BY DEF Asked
    <3>2. i \in 1 .. Len(messages)
      BY <1>4, <2>1, <3>1
    <3>3. messages'[i] = messages[i] /\ i > 1 /\ messages[i - 1] = Asked(messages[i].turn)
      BY <1>4, <2>1, <3>2 DEF ChatInv, PairInv
    <3>4. i - 1 \in 1 .. Len(messages)
      BY <1>4, <3>2, <3>3
    <3> QED BY <1>4, <3>3, <3>4
  <2>2. ASSUME NEW u \in Talk!Turns, reader'[u] = "reads"
        PROVE  Len(messages') > 0 /\ messages'[Len(messages')] = Asked(u)
    BY <1>4, <1>5, <1>7, <2>2
  <2> QED BY <2>1, <2>2 DEF PairInv, Asked
<1>13. ToldInv'
  <2> SUFFICES ASSUME NEW u \in Talk!Turns
               PROVE  /\ reader'[u] = "replied" => Told(u)'
                      /\ u <= turn' /\ reader'[u] = "done" => u \in stopped \cup failed \/ Told(u)'
    BY <1>1 DEF ToldInv, Told, Answered
  <2>1. reader'[u] = "replied" => Told(u)'
    BY <1>5, <1>7
  <2>2. ASSUME u <= turn', reader'[u] = "done" PROVE u \in stopped \cup failed \/ Told(u)'
    <3>1. u # t /\ reader[u] = "done"
      BY <1>5, <2>2
    <3>2. u <= turn
      BY <1>1, <1>2, <2>2, <3>1, StoreAssumption DEF Talk!Turns
    <3> QED BY <1>4, <3>1, <3>2 DEF ChatInv, ToldInv
  <2> QED BY <2>1, <2>2
<1> QED BY <1>9, <1>10, <1>11, <1>12, <1>13 DEF ChatInv

(* What the bridge does to one turn: it goes on, and may put frames. *)
Wire(t, fs) ==
  /\ bridge[t].step \notin {"none", "over"}
  /\ DOMAIN bridge' = Talk!Turns /\ DOMAIN bridge'[t] = {"step", "tools"}
  /\ \A u \in Talk!Turns : u # t => bridge'[u] = bridge[u]
  /\ socket' = [socket EXCEPT ![t] = @ \o fs]
  /\ DoneAt(fs) = {} \/ (fs = <<"done", "end">> /\ bridge'[t].step = "over")
  /\ UNCHANGED Talk!page
LEMMA WireKeeps ==
  ASSUME ChatInv, NEW t \in Talk!Turns, NEW fs \in Seq(Frame), Wire(t, fs)
  PROVE  ChatInv'
<1>1. UNCHANGED <<messages, streaming, turn, reader, stopped, failed>>
  BY DEF Wire, Talk!page
<1>2. /\ socket' \in [Talk!Turns -> Seq(Frame)] /\ socket'[t] = socket[t] \o fs
      /\ \A u \in Talk!Turns : u # t => socket'[u] = socket[u]
  <2>1. socket[t] \o fs \in Seq(Frame)
    BY PutDone DEF ChatInv, ChatTyped
  <2> QED BY <2>1 DEF Wire, ChatInv, ChatTyped
<1>3. ~(t > turn) /\ DoneAt(socket[t]) = {} /\ reader[t] # "replied"
  BY DEF Wire, ChatInv, TurnInv, FrameInv
<1>4. ChatTyped'
  BY <1>1, <1>2 DEF Wire, ChatInv, ChatTyped
<1>5. TurnInv'
  <2> SUFFICES ASSUME NEW u \in Talk!Turns
               PROVE  /\ reader'[u] # "done" => u = turn' /\ streaming'
                      /\ u > turn' => bridge'[u].step = "none" /\ socket'[u] = <<>>
    BY DEF TurnInv
  <2>1. u > turn => u # t
    BY <1>3
  <2> QED BY <1>1, <1>2, <2>1 DEF Wire, ChatInv, TurnInv
<1>6. FrameInv'
  <2> SUFFICES ASSUME NEW u \in Talk!Turns
               PROVE  /\ bridge'[u].step # "over" => DoneAt(socket'[u]) = {} /\ reader'[u] # "replied"
                      /\ reader'[u] = "replied" => DoneAt(socket'[u]) = {}
                      /\ \A i, j \in DoneAt(socket'[u]) : i = j
    BY DEF FrameInv, DoneAt
  <2>1. CASE u # t
    BY <1>1, <1>2, <2>1 DEF Wire, ChatInv, FrameInv
  <2>2. CASE u = t
    <3>1. socket[t] \in Seq(Frame) /\ reader'[u] # "replied"
      BY <1>1, <1>3, <2>2 DEF ChatInv, ChatTyped
    <3>2. \/ DoneAt(fs) = {} /\ DoneAt(socket[t] \o fs) = {}
          \/ /\ bridge'[t].step = "over"
             /\ \A i, j \in DoneAt(socket[t] \o fs) : i = j
      BY <1>3, <3>1, PutDone DEF Wire
    <3>3. DoneAt(socket'[u]) = DoneAt(socket[t] \o fs)
      BY <1>2, <2>2
    <3> QED BY <2>2, <3>1, <3>2, <3>3
  <2> QED BY <2>1, <2>2
<1>7. PairInv' /\ ToldInv'
  BY <1>1 DEF ChatInv, PairInv, ToldInv, Told, Answered, Asked
<1> QED BY <1>4, <1>5, <1>6, <1>7 DEF ChatInv

(* Every step of the server is one of these. *)
LEMMA ServerKeeps ==
  ASSUME ChatInv, NEW t \in Talk!Turns,
         Talk!Connect(t) \/ Talk!Tool(t) \/ Talk!Done(t) \/ Talk!Throw(t) \/ Talk!Cut(t)
  PROVE  ChatInv'
<1>1. /\ DOMAIN bridge = Talk!Turns /\ DOMAIN bridge[t] = {"step", "tools"}
      /\ socket \in [Talk!Turns -> Seq(Frame)] /\ socket[t] \in Seq(Frame)
  BY DEF ChatInv, ChatTyped
<1>2. ASSUME NEW from, NEW to, Talk!At(t, from, to)
      PROVE  /\ bridge[t].step = from /\ bridge'[t].step = to
             /\ DOMAIN bridge' = Talk!Turns /\ DOMAIN bridge'[t] = {"step", "tools"}
             /\ \A u \in Talk!Turns : u # t => bridge'[u] = bridge[u]
  BY <1>1, <1>2 DEF Talk!At
<1>3. ASSUME socket' = socket PROVE socket' = [socket EXCEPT ![t] = @ \o <<>>]
  <2>1. socket[t] \o <<>> = socket[t]
    BY <1>1
  <2> QED BY <1>1, <1>3, <2>1
<1>4. /\ <<>> \in Seq(Frame) /\ DoneAt(<<>>) = {}
      /\ \A f \in {"start", "finish", "end", "reset"} : <<f>> \in Seq(Frame) /\ DoneAt(<<f>>) = {}
      /\ <<"error", "end">> \in Seq(Frame) /\ DoneAt(<<"error", "end">>) = {}
      /\ <<"done", "end">> \in Seq(Frame)
  BY DEF DoneAt, Frame
<1>5. CASE Talk!Connect(t)
  <2>1. CASE Talk!At(t, "asked", "over") /\ Talk!Put(t, <<"error", "end">>)
    <3>1. UNCHANGED Talk!page
      BY <1>5 DEF Talk!Connect
    <3>2. Wire(t, <<"error", "end">>)
      BY <1>2, <1>4, <2>1, <3>1 DEF Wire, Talk!Put
    <3> QED BY <1>4, <3>2, WireKeeps
  <2>2. CASE Talk!At(t, "asked", "loop") /\ UNCHANGED socket
    <3>1. UNCHANGED Talk!page
      BY <1>5 DEF Talk!Connect
    <3>2. Wire(t, <<>>)
      BY <1>2, <1>3, <1>4, <2>2, <3>1 DEF Wire
    <3> QED BY <1>4, <3>2, WireKeeps
  <2> QED BY <1>5, <2>1, <2>2 DEF Talk!Connect
<1>6. CASE Talk!Tool(t)
  <2>1. CASE Talk!At(t, "tool", "loop") /\ Talk!Put(t, <<"finish">>)
    <3>1. UNCHANGED Talk!page
      BY <1>6 DEF Talk!Tool
    <3>2. Wire(t, <<"finish">>)
      BY <1>2, <1>4, <2>1, <3>1 DEF Wire, Talk!Put
    <3> QED BY <1>4, <3>2, WireKeeps
  <2>2. CASE /\ bridge[t].step = "loop" /\ Talk!Put(t, <<"start">>)
             /\ bridge' = [bridge EXCEPT ![t] = [step |-> "tool", tools |-> @.tools + 1]]
    <3>1. /\ DOMAIN bridge' = Talk!Turns /\ DOMAIN bridge'[t] = {"step", "tools"}
          /\ \A u \in Talk!Turns : u # t => bridge'[u] = bridge[u]
      BY <1>1, <2>2
    <3>2. Wire(t, <<"start">>)
      BY <1>4, <1>6, <2>2, <3>1 DEF Wire, Talk!Put, Talk!Tool
    <3> QED BY <1>4, <3>2, WireKeeps
  <2> QED BY <1>6, <2>1, <2>2 DEF Talk!Tool
<1>7. CASE Talk!Done(t)
  <2>1. Wire(t, <<"done", "end">>)
    BY <1>2, <1>7 DEF Wire, Talk!Put, Talk!Done
  <2> QED BY <1>4, <2>1, WireKeeps
<1>8. CASE Talk!Throw(t)
  <2>1. Wire(t, <<"error", "end">>)
    BY <1>2, <1>4, <1>8 DEF Wire, Talk!Put, Talk!Throw
  <2> QED BY <1>4, <2>1, WireKeeps
<1>9. CASE Talk!Cut(t)
  <2>1. PICK f \in {"end", "reset"} : Talk!Put(t, <<f>>)
    BY <1>9 DEF Talk!Cut
  <2>2. /\ DOMAIN bridge' = Talk!Turns /\ DOMAIN bridge'[t] = {"step", "tools"}
        /\ \A u \in Talk!Turns : u # t => bridge'[u] = bridge[u]
        /\ bridge[t].step \in {"loop", "tool"}
    BY <1>1, <1>9 DEF Talk!Cut
  <2>3. Wire(t, <<f>>)
    BY <1>4, <1>9, <2>1, <2>2 DEF Wire, Talk!Put, Talk!Cut
  <2> QED BY <1>4, <2>3, WireKeeps
<1> QED BY <1>5, <1>6, <1>7, <1>8, <1>9

(* The page reads a frame of the turn under way. *)
LEMMA ReceiveWire ==
  ASSUME ChatInv, NEW t \in Talk!Turns, Talk!Receive(t),
         reader' \in [Talk!Turns -> {"reads", "replied", "done"}],
         \A u \in Talk!Turns : u # t => reader'[u] = reader[u],
         reader'[t] = "replied" => reader[t] = "replied" \/ Head(socket[t]) = "done",
         reader'[t] # "done" => streaming' = streaming
  PROVE  /\ socket' \in [Talk!Turns -> Seq(Frame)] /\ reader[t] # "done" /\ t = turn /\ streaming
         /\ Head(socket[t]) \in Frame /\ (Head(socket[t]) = "done" => reader[t] = "reads")
         /\ UNCHANGED <<turn, stopped, bridge>>
         /\ TurnInv' /\ FrameInv'
<1>1. /\ reader[t] # "done" /\ socket[t] # <<>> /\ socket' = [socket EXCEPT ![t] = Tail(@)]
      /\ UNCHANGED <<turn, stopped, bridge>>
  BY DEF Talk!Receive
<1>2. socket[t] \in Seq(Frame) /\ socket \in [Talk!Turns -> Seq(Frame)]
  BY DEF ChatInv, ChatTyped
<1>3. /\ Tail(socket[t]) \in Seq(Frame) /\ Head(socket[t]) \in Frame
      /\ DoneAt(socket[t]) = {} => DoneAt(Tail(socket[t])) = {} /\ Head(socket[t]) # "done"
      /\ (\A i, j \in DoneAt(socket[t]) : i = j) =>
           /\ \A i, j \in DoneAt(Tail(socket[t])) : i = j
           /\ Head(socket[t]) = "done" => DoneAt(Tail(socket[t])) = {}
  BY <1>1, <1>2, TailDone
<1>4. /\ socket' \in [Talk!Turns -> Seq(Frame)] /\ socket'[t] = Tail(socket[t])
      /\ \A u \in Talk!Turns : u # t => socket'[u] = socket[u]
  BY <1>1, <1>2, <1>3
<1>5. t = turn /\ streaming /\ \A u \in Talk!Turns : u # t => reader[u] = "done"
  BY <1>1 DEF ChatInv, TurnInv
<1>6. Head(socket[t]) = "done" => reader[t] = "reads"
  BY <1>1, <1>3 DEF ChatInv, FrameInv, ChatTyped
<1>7. TurnInv'
  <2> SUFFICES ASSUME NEW u \in Talk!Turns
               PROVE  /\ reader'[u] # "done" => u = turn' /\ streaming'
                      /\ u > turn' => bridge'[u].step = "none" /\ socket'[u] = <<>>
    BY DEF TurnInv
  <2>1. reader'[u] # "done" => u = turn' /\ streaming'
    BY <1>1, <1>5
  <2>2. ASSUME u > turn' PROVE bridge'[u].step = "none" /\ socket'[u] = <<>>
    <3>1. u > turn /\ u # t
      BY <1>1, <1>5, <2>2 DEF ChatInv, ChatTyped
    <3> QED BY <1>1, <1>4, <3>1 DEF ChatInv, TurnInv
  <2> QED BY <2>1, <2>2
<1>8. FrameInv'
  <2> SUFFICES ASSUME NEW u \in Talk!Turns
               PROVE  /\ bridge'[u].step # "over" => DoneAt(socket'[u]) = {} /\ reader'[u] # "replied"
                      /\ reader'[u] = "replied" => DoneAt(socket'[u]) = {}
                      /\ \A i, j \in DoneAt(socket'[u]) : i = j
    BY DEF FrameInv, DoneAt
  <2>1. CASE u # t
    BY <1>1, <1>4, <2>1 DEF ChatInv, FrameInv
  <2>2. CASE u = t
    <3>1. /\ \A i, j \in DoneAt(Tail(socket[t])) : i = j
          /\ Head(socket[t]) = "done" => DoneAt(Tail(socket[t])) = {}
      BY <1>3 DEF ChatInv, FrameInv
    <3>2. bridge[t].step # "over" =>
            DoneAt(Tail(socket[t])) = {} /\ Head(socket[t]) # "done" /\ reader[t] # "replied"
      BY <1>3 DEF ChatInv, FrameInv
    <3>3. reader[t] = "replied" => DoneAt(Tail(socket[t])) = {}
      BY <1>3 DEF ChatInv, FrameInv
    <3> QED BY <1>1, <1>4, <2>2, <3>1, <3>2, <3>3
  <2> QED BY <2>1, <2>2
<1> QED BY <1>1, <1>3, <1>4, <1>5, <1>6, <1>7, <1>8

(* The answer stands under the question that is read. *)
LEMMA AnswerComes ==
  ASSUME ChatInv, NEW t \in Talk!Turns, Talk!Receive(t), Head(socket[t]) = "done"
  PROVE  ChatInv'
<1>1. /\ messages' = Append(messages, Answered(t)) /\ reader' = [reader EXCEPT ![t] = "replied"]
      /\ UNCHANGED <<streaming, failed>>
  BY DEF Talk!Receive, Answered
<1>2. /\ reader' \in [Talk!Turns -> {"reads", "replied", "done"}] /\ reader'[t] = "replied"
      /\ \A u \in Talk!Turns : u # t => reader'[u] = reader[u]
  BY <1>1 DEF ChatInv, ChatTyped
<1>3. /\ socket' \in [Talk!Turns -> Seq(Frame)] /\ reader[t] = "reads" /\ t = turn
      /\ UNCHANGED <<turn, stopped, bridge>> /\ TurnInv' /\ FrameInv'
  BY <1>1, <1>2, ReceiveWire
<1>4. Answered(t) \in Bubble
  BY DEF Answered, Bubble
<1>5. /\ messages' \in Seq(Bubble) /\ Len(messages) \in Nat /\ Len(messages') = Len(messages) + 1
      /\ messages'[Len(messages')] = Answered(t)
      /\ \A i \in 1 .. Len(messages) : messages'[i] = messages[i]
      /\ \A u : Told(u) => Told(u)'
  BY <1>1, <1>4, Bubbles DEF ChatInv
<1>6. ChatTyped'
  BY <1>2, <1>3, <1>5 DEF ChatInv, ChatTyped
<1>7. Len(messages) > 0 /\ messages[Len(messages)] = Asked(t)
      /\ \A u \in Talk!Turns : u # t => reader[u] = "done"
  BY <1>3 DEF ChatInv, PairInv, TurnInv
<1>8. ASSUME NEW i \in 1 .. Len(messages'), messages'[i].role = "assistant"
      PROVE  i > 1 /\ messages'[i - 1] = Asked(messages'[i].turn)
  <2>1. CASE i \in 1 .. Len(messages)
    <3>1. messages'[i] = messages[i] /\ i > 1 /\ messages[i - 1] = Asked(messages[i].turn)
      BY <1>5, <1>8, <2>1 DEF ChatInv, PairInv
    <3>2. i - 1 \in 1 .. Len(messages)
      BY <1>5, <2>1, <3>1
    <3> QED BY <1>5, <3>1, <3>2
  <2>2. CASE i = Len(messages) + 1
    <3>1. messages'[i].turn = t /\ i - 1 = Len(messages) /\ i > 1
      BY <1>5, <1>7, <2>2 DEF Answered
    <3>2. messages'[i - 1] = messages[Len(messages)]
      BY <1>5, <1>7, <3>1
    <3> QED BY <1>7, <3>1, <3>2
  <2> QED BY <1>5, <2>1, <2>2
<1>9. PairInv'
  BY <1>2, <1>7, <1>8 DEF PairInv, Asked
<1>10. Told(t)'
  <2>1. Len(messages') \in 1 .. Len(messages')
    BY <1>5
  <2> QED BY <1>5, <2>1 DEF Told, Answered
<1>11. ASSUME NEW u \in Talk!Turns
       PROVE  /\ reader'[u] = "replied" => Told(u)'
              /\ u <= turn' /\ reader'[u] = "done" => u \in stopped' \cup failed' \/ Told(u)'
  BY <1>1, <1>2, <1>3, <1>5, <1>10 DEF ChatInv, ToldInv
<1>12. ToldInv'
  BY <1>11 DEF ToldInv, Told, Answered
<1> QED BY <1>3, <1>6, <1>9, <1>12 DEF ChatInv

(* The turn ends, answered, failed or stopped. *)
LEMMA TurnEnds ==
  ASSUME ChatInv, NEW t \in Talk!Turns,
         messages' = messages, turn' = turn, reader' = [reader EXCEPT ![t] = "done"],
         stopped \subseteq stopped', failed \subseteq failed',
         reader[t] = "replied" \/ t \in stopped' \cup failed'
  PROVE  /\ reader' \in [Talk!Turns -> {"reads", "replied", "done"}] /\ reader'[t] = "done"
         /\ \A u \in Talk!Turns : u # t => reader'[u] = reader[u]
         /\ PairInv' /\ ToldInv'
<1>1. /\ reader' \in [Talk!Turns -> {"reads", "replied", "done"}] /\ reader'[t] = "done"
      /\ \A u \in Talk!Turns : u # t => reader'[u] = reader[u]
  BY DEF ChatInv, ChatTyped
<1>2. PairInv'
  BY <1>1 DEF ChatInv, PairInv, Asked
<1>3. \A u \in Talk!Turns : Told(u)' <=> Told(u)
  BY DEF Told, Answered
<1>4. ASSUME NEW u \in Talk!Turns
      PROVE  /\ reader'[u] = "replied" => Told(u)'
             /\ u <= turn' /\ reader'[u] = "done" => u \in stopped' \cup failed' \/ Told(u)'
  BY <1>1, <1>3 DEF ChatInv, ToldInv
<1>5. ToldInv'
  BY <1>4 DEF ToldInv, Told, Answered
<1> QED BY <1>1, <1>2, <1>5

LEMMA ReceiveKeeps ==
  ASSUME ChatInv, NEW t \in Talk!Turns, Talk!Receive(t)
  PROVE  ChatInv'
<1>1. CASE Head(socket[t]) = "done"
  BY <1>1, AnswerComes
<1>2. CASE Head(socket[t]) \in {"end", "reset"}
  <2>1. /\ messages' = messages /\ UNCHANGED <<turn, stopped>>
        /\ Talk!End(t, Head(socket[t]) = "reset" \/ reader[t] # "replied")
    BY <1>2 DEF Talk!Receive
  <2>2. reader' = [reader EXCEPT ![t] = "done"] /\ failed \subseteq failed'
        /\ (reader[t] = "replied" \/ t \in failed')
    BY <2>1 DEF Talk!End
  <2>3. /\ reader' \in [Talk!Turns -> {"reads", "replied", "done"}] /\ reader'[t] = "done"
        /\ \A u \in Talk!Turns : u # t => reader'[u] = reader[u]
        /\ PairInv' /\ ToldInv'
    BY <2>1, <2>2, TurnEnds
  <2>4. /\ socket' \in [Talk!Turns -> Seq(Frame)] /\ UNCHANGED <<turn, stopped, bridge>>
        /\ TurnInv' /\ FrameInv'
    BY <2>3, ReceiveWire
  <2>5. ChatTyped'
    BY <2>1, <2>3, <2>4 DEF ChatInv, ChatTyped
  <2> QED BY <2>3, <2>4, <2>5 DEF ChatInv
<1>3. CASE Head(socket[t]) \notin {"done", "end", "reset"}
  <2>1. UNCHANGED <<messages, streaming, turn, reader, stopped, failed>>
    BY <1>3 DEF Talk!Receive
  <2>2. /\ socket' \in [Talk!Turns -> Seq(Frame)] /\ UNCHANGED bridge /\ TurnInv' /\ FrameInv'
    <3>1. reader' \in [Talk!Turns -> {"reads", "replied", "done"}]
      BY <2>1 DEF ChatInv, ChatTyped
    <3> QED BY <2>1, <3>1, ReceiveWire
  <2>3. ChatTyped'
    BY <2>1, <2>2 DEF ChatInv, ChatTyped
  <2>4. PairInv' /\ ToldInv'
    BY <2>1 DEF ChatInv, PairInv, ToldInv, Told, Answered, Asked
  <2> QED BY <2>2, <2>3, <2>4 DEF ChatInv
<1> QED BY <1>1, <1>2, <1>3

(* Nothing of a stopped turn is read any more. *)
LEMMA StopTurnKeeps ==
  ASSUME ChatInv, NEW t \in Talk!Turns, Talk!StopTurn(t)
  PROVE  ChatInv'
<1>1. /\ reader[t] # "done" /\ stopped' = stopped \cup {t} /\ Talk!End(t, FALSE)
      /\ UNCHANGED <<messages, turn, bridge, socket>>
  BY DEF Talk!StopTurn
<1>2. reader' = [reader EXCEPT ![t] = "done"] /\ failed \subseteq failed'
  BY <1>1 DEF Talk!End
<1>3. /\ reader' \in [Talk!Turns -> {"reads", "replied", "done"}] /\ reader'[t] = "done"
      /\ \A u \in Talk!Turns : u # t => reader'[u] = reader[u]
      /\ PairInv' /\ ToldInv'
  BY <1>1, <1>2, TurnEnds
<1>4. ChatTyped' /\ FrameInv'
  BY <1>1, <1>3 DEF ChatInv, ChatTyped, FrameInv, DoneAt
<1>5. \A u \in Talk!Turns : reader'[u] = "done"
  BY <1>1, <1>3 DEF ChatInv, TurnInv
<1>6. TurnInv'
  BY <1>1, <1>5 DEF ChatInv, TurnInv
<1> QED BY <1>3, <1>4, <1>6 DEF ChatInv

(* useChat.ts: an answer stands under its own question, and no question is  *)
(* left with neither answer nor error unless the operator stopped it.      *)
THEOREM AnswersStand == Talk!Spec => []Talk!EachAnswered
<1>1. ASSUME Talk!Init PROVE ChatInv
  <2>1. /\ messages = <<>> /\ turn = 0 /\ reader = [t \in Talk!Turns |-> "done"]
        /\ bridge = [t \in Talk!Turns |-> [step |-> "none", tools |-> 0]]
        /\ socket = [t \in Talk!Turns |-> <<>>]
    BY <1>1 DEF Talk!Init
  <2>2. ChatTyped
    BY <2>1, StoreAssumption DEF ChatTyped, Bubble, Frame
  <2>3. TurnInv /\ FrameInv
    BY <2>1 DEF TurnInv, FrameInv, DoneAt
  <2>4. Len(messages) = 0 /\ \A t \in Talk!Turns : t \in Nat /\ t > 0 /\ reader[t] = "done"
    BY <2>1, StoreAssumption DEF Talk!Turns
  <2>5. PairInv /\ ToldInv
    BY <2>1, <2>4 DEF PairInv, ToldInv
  <2> QED BY <2>2, <2>3, <2>5 DEF ChatInv
<1>2. ASSUME ChatInv, [Talk!Next]_(Talk!vars) PROVE ChatInv'
  <2>1. CASE Talk!SendQuestion
    BY <1>2, <2>1, SendKeeps
  <2>2. ASSUME NEW t \in Talk!Turns,
               Talk!Connect(t) \/ Talk!Tool(t) \/ Talk!Done(t) \/ Talk!Throw(t) \/ Talk!Cut(t)
        PROVE  ChatInv'
    BY <1>2, <2>2, ServerKeeps
  <2>3. ASSUME NEW t \in Talk!Turns, Talk!Receive(t) \/ Talk!StopTurn(t) PROVE ChatInv'
    BY <1>2, <2>3, ReceiveKeeps, StopTurnKeeps
  <2>4. CASE UNCHANGED Talk!vars
    <3>1. UNCHANGED <<messages, streaming, turn, reader, stopped, failed, bridge, socket>>
      BY <2>4 DEF Talk!vars, Talk!page
    <3>2. ChatTyped' /\ TurnInv' /\ FrameInv'
      BY <1>2, <3>1 DEF ChatInv, ChatTyped, TurnInv, FrameInv, DoneAt
    <3>3. PairInv' /\ ToldInv'
      BY <1>2, <3>1 DEF ChatInv, PairInv, ToldInv, Told, Answered, Asked
    <3> QED BY <3>2, <3>3 DEF ChatInv
  <2> QED BY <1>2, <2>1, <2>2, <2>3, <2>4 DEF Talk!Next
<1>3. ASSUME ChatInv PROVE Talk!EachAnswered
  <2>1. DOMAIN messages = 1 .. Len(messages) /\ turn \in 0 .. MaxTurns
    BY <1>3 DEF ChatInv, ChatTyped
  <2>2. \A t \in 1 .. turn : t \in Talk!Turns /\ t <= turn
    BY <2>1, StoreAssumption DEF Talk!Turns
  <2> QED BY <1>3, <2>1, <2>2 DEF ChatInv, PairInv, ToldInv, Told, Talk!EachAnswered, Asked, Answered
<1> QED BY <1>1, <1>2, <1>3, PTL DEF Talk!Spec

---------------------------------------------------------------------------
(* The composition.  A part that runs takes the steps of its own module,   *)
(* or none; which parts run never changes.                                 *)

C == INSTANCE ChainClientProofs
P == INSTANCE ChainClientProofs WITH Readers <- {}, Writers <- Hands
F == INSTANCE StateFilesProofs WITH Writers <- Authors, op <- call
L == INSTANCE StateFilesProofs WITH Writers <- {Editor}, ReadFaults <- FALSE, op <- call

(* The modules proved about are the modules composed. *)
LEMMA SameClient ==
  /\ Client!Init <=> C!Init
  /\ Client!Next <=> C!Next
  /\ Client!SuccessLanded <=> C!SuccessLanded
  /\ Client!Reads!Init <=> C!Reads!Init
  /\ Client!Reads!Next <=> C!Reads!Next
<1>1. Client!Init <=> C!Init
  BY DEF Client!Init, C!Init, Client!Nothing, C!Nothing, Client!Callers, C!Callers, Client!NoOp, C!NoOp
<1>2. Client!Next <=> C!Next
  BY DEF Client!Next, C!Next, Client!memory, C!memory,
    Client!Callers, C!Callers, Client!NoOp, C!NoOp, Client!Nothing, C!Nothing, Client!Open, C!Open,
    Client!Shares, C!Shares, Client!Question, C!Question, Client!GetMyPositions, C!GetMyPositions,
    Client!ReadChain, C!ReadChain, Client!Waiters, C!Waiters, Client!Released, C!Released,
    Client!LoadEnds, C!LoadEnds, Client!LoadFails, C!LoadFails, Client!Expire, C!Expire,
    Client!Begin, C!Begin, Client!MinSafeBinsBelow, C!MinSafeBinsBelow,
    Client!WideRangeThreshold, C!WideRangeThreshold, Client!PlanDeploy, C!PlanDeploy,
    Client!Deploy, C!Deploy, Client!Target, C!Target, Client!Close, C!Close, Client!Claim, C!Claim,
    Client!LookedUp, C!LookedUp, Client!CloseTxs, C!CloseTxs, Client!Inspect, C!Inspect,
    Client!Rank, C!Rank, Client!Valid, C!Valid, Client!Reported, C!Reported, Client!Send, C!Send,
    Client!Commit, C!Commit, Client!Return, C!Return
<1>3. Client!SuccessLanded <=> C!SuccessLanded
  BY DEF Client!SuccessLanded, C!SuccessLanded
<1>4. Client!Reads!Init <=> C!Reads!Init
  BY DEF Client!Reads!Init, C!Reads!Init, Client!Reads!Nothing, C!Reads!Nothing,
    Client!Callers, C!Callers
<1>5. Client!Reads!Next <=> C!Reads!Next
  BY DEF Client!Callers, C!Callers, Client!Reads!Next, C!Reads!Next,
    Client!Reads!Forward, C!Reads!Forward, Client!Reads!Ask, C!Reads!Ask,
    Client!Reads!Nothing, C!Reads!Nothing, Client!Reads!Answer, C!Reads!Answer,
    Client!Reads!Fail, C!Reads!Fail, Client!Reads!NotAfter, C!Reads!NotAfter,
    Client!Reads!Rank, C!Reads!Rank, Client!Reads!Stage, C!Reads!Stage
<1> QED BY <1>1, <1>2, <1>3, <1>4, <1>5

LEMMA SamePair ==
  /\ Pair!Init <=> P!Init
  /\ Pair!Next <=> P!Next
  /\ Pair!SuccessLanded <=> P!SuccessLanded
  /\ Pair!Reads!Init <=> P!Reads!Init
  /\ Pair!Reads!Next <=> P!Reads!Next
<1>1. Pair!Init <=> P!Init
  BY DEF Pair!Init, P!Init, Pair!Nothing, P!Nothing, Pair!Callers, P!Callers, Pair!NoOp, P!NoOp
<1>2. Pair!Next <=> P!Next
  BY DEF Pair!Next, P!Next, Pair!memory, P!memory,
    Pair!Callers, P!Callers, Pair!NoOp, P!NoOp, Pair!Nothing, P!Nothing, Pair!Open, P!Open,
    Pair!Shares, P!Shares, Pair!Question, P!Question, Pair!GetMyPositions, P!GetMyPositions,
    Pair!ReadChain, P!ReadChain, Pair!Waiters, P!Waiters, Pair!Released, P!Released,
    Pair!LoadEnds, P!LoadEnds, Pair!LoadFails, P!LoadFails, Pair!Expire, P!Expire,
    Pair!Begin, P!Begin, Pair!MinSafeBinsBelow, P!MinSafeBinsBelow,
    Pair!WideRangeThreshold, P!WideRangeThreshold, Pair!PlanDeploy, P!PlanDeploy,
    Pair!Deploy, P!Deploy, Pair!Target, P!Target, Pair!Close, P!Close, Pair!Claim, P!Claim,
    Pair!LookedUp, P!LookedUp, Pair!CloseTxs, P!CloseTxs, Pair!Inspect, P!Inspect,
    Pair!Rank, P!Rank, Pair!Valid, P!Valid, Pair!Reported, P!Reported, Pair!Send, P!Send,
    Pair!Commit, P!Commit, Pair!Return, P!Return
<1>3. Pair!SuccessLanded <=> P!SuccessLanded
  BY DEF Pair!SuccessLanded, P!SuccessLanded
<1>4. Pair!Reads!Init <=> P!Reads!Init
  BY DEF Pair!Reads!Init, P!Reads!Init, Pair!Reads!Nothing, P!Reads!Nothing,
    Pair!Callers, P!Callers
<1>5. Pair!Reads!Next <=> P!Reads!Next
  BY DEF Pair!Callers, P!Callers, Pair!Reads!Next, P!Reads!Next,
    Pair!Reads!Forward, P!Reads!Forward, Pair!Reads!Ask, P!Reads!Ask,
    Pair!Reads!Nothing, P!Reads!Nothing, Pair!Reads!Answer, P!Reads!Answer,
    Pair!Reads!Fail, P!Reads!Fail, Pair!Reads!NotAfter, P!Reads!NotAfter,
    Pair!Reads!Rank, P!Reads!Rank, Pair!Reads!Stage, P!Reads!Stage
<1> QED BY <1>1, <1>2, <1>3, <1>4, <1>5

(* So it is for the files. *)
LEMMA SameFiles ==
  /\ Files!Init <=> F!Init
  /\ Files!Next <=> F!Next
  /\ Files!WholeOnDisk <=> F!WholeOnDisk
<1>1. Files!Init <=> F!Init
  BY DEF Files!Init, F!Init, Files!Kinds, F!Kinds, Files!Default, F!Default, Files!Missing, F!Missing,
    Files!Whole, F!Whole, Files!Idle, F!Idle, Files!InPlace, F!InPlace
<1>2. Files!Next <=> F!Next
  BY DEF Files!Next, F!Next, Files!Kinds, F!Kinds,
    Files!Default, F!Default, Files!Ops, F!Ops, Files!StrategyLibrary, F!StrategyLibrary,
    Files!AddressMap, F!AddressMap, Files!PerformanceLog, F!PerformanceLog,
    Files!FlatConfig, F!FlatConfig, Files!Applied, F!Applied, Files!Missing, F!Missing,
    Files!Half, F!Half, Files!Whole, F!Whole, Files!Idle, F!Idle, Files!InPlace, F!InPlace,
    Files!Readable, F!Readable, Files!Reads, F!Reads, Files!Base, F!Base, Files!Load, F!Load,
    Files!Step, F!Step, Files!Finish, F!Finish, Files!InUse, F!InUse, Files!OpenTmp, F!OpenTmp,
    Files!FillTmp, F!FillTmp, Files!Rename, F!Rename, Files!Truncate, F!Truncate,
    Files!CopyBack, F!CopyBack, Files!RmTmp, F!RmTmp, Files!Nested, F!Nested,
    Files!Reload, F!Reload, Files!Crash, F!Crash, Files!Restart, F!Restart
<1>3. Files!WholeOnDisk <=> F!WholeOnDisk
  BY DEF Files!WholeOnDisk, F!WholeOnDisk
<1> QED BY <1>1, <1>2, <1>3

LEMMA SameLone ==
  /\ Lone!Init <=> L!Init
  /\ Lone!Next <=> L!Next
  /\ Lone!Register!Init <=> L!Register!Init
  /\ Lone!Register!Next <=> L!Register!Next
  /\ Lone!Contents = L!Contents /\ Lone!Contents' = L!Contents'
<1>1. Lone!Init <=> L!Init
  BY DEF Lone!Init, L!Init, Lone!Kinds, L!Kinds, Lone!Default, L!Default, Lone!Missing, L!Missing,
    Lone!Whole, L!Whole, Lone!Idle, L!Idle, Lone!InPlace, L!InPlace
<1>2. Lone!Next <=> L!Next
  BY DEF Lone!Next, L!Next, Lone!Kinds, L!Kinds,
    Lone!Default, L!Default, Lone!Ops, L!Ops, Lone!StrategyLibrary, L!StrategyLibrary,
    Lone!AddressMap, L!AddressMap, Lone!PerformanceLog, L!PerformanceLog,
    Lone!FlatConfig, L!FlatConfig, Lone!Applied, L!Applied, Lone!Missing, L!Missing,
    Lone!Half, L!Half, Lone!Whole, L!Whole, Lone!Idle, L!Idle, Lone!InPlace, L!InPlace,
    Lone!Readable, L!Readable, Lone!Reads, L!Reads, Lone!Base, L!Base, Lone!Load, L!Load,
    Lone!Step, L!Step, Lone!Finish, L!Finish, Lone!InUse, L!InUse, Lone!OpenTmp, L!OpenTmp,
    Lone!FillTmp, L!FillTmp, Lone!Rename, L!Rename, Lone!Truncate, L!Truncate,
    Lone!CopyBack, L!CopyBack, Lone!RmTmp, L!RmTmp, Lone!Nested, L!Nested,
    Lone!Reload, L!Reload, Lone!Crash, L!Crash, Lone!Restart, L!Restart
<1>3. Lone!Contents = L!Contents /\ Lone!Contents' = L!Contents'
  BY DEF Lone!Contents, L!Contents, Lone!Default, L!Default, Lone!Copies, L!Copies
<1>4. Lone!Register!Init <=> L!Register!Init
  BY DEF Lone!Register!Init, L!Register!Init, Lone!Register!Kinds, L!Register!Kinds,
    Lone!Register!Default, L!Register!Default, Lone!Contents, L!Contents,
    Lone!Default, L!Default, Lone!Copies, L!Copies
<1>5. Lone!Register!Next <=> L!Register!Next
  BY DEF Lone!Register!Next, L!Register!Next, Lone!Register!Call, L!Register!Call,
    Lone!Register!Ops, L!Register!Ops, Lone!Register!Applied, L!Register!Applied,
    Lone!Register!StrategyLibrary, L!Register!StrategyLibrary,
    Lone!Register!AddressMap, L!Register!AddressMap,
    Lone!Register!PerformanceLog, L!Register!PerformanceLog,
    Lone!Register!FlatConfig, L!Register!FlatConfig, Lone!Contents, L!Contents,
    Lone!Default, L!Default, Lone!Copies, L!Copies
<1> QED BY <1>1, <1>2, <1>3, <1>4, <1>5

(* Which parts run never changes. *)
LEMMA PartsStay == [Next]_vars => UNCHANGED moving
  BY DEF Next, vars, OnlyChain, OnlyFiles, OnlyWatch, OnlySettings, OnlyPage, OnlyChat

(* A part that runs takes the steps of its own module, and goes on to run. *)
Runs(part) == moving \in Moving /\ part \in moving

LEMMA ClientRuns == Spec /\ "client" \in moving => C!Spec /\ []("client" \in moving)
<1>1. Init /\ "client" \in moving => C!Init /\ Runs("client")
  BY SameClient DEF Init, Runs
<1>2. ASSUME [Next]_vars, Runs("client") PROVE Runs("client")' /\ [C!Next]_(C!vars)
  <2>1. ~("hands" \in moving) /\ ~("dry" \in moving)
    BY <1>2, StoreAssumption DEF Runs
  <2>2. [C!Next]_(C!vars)
    <3>1. CASE Client!Next
      BY <3>1, SameClient
    <3>2. CASE UNCHANGED clientVars
      BY <3>2 DEF clientVars, C!vars, C!memory
    <3> QED BY <1>2, <2>1, <3>1, <3>2
        DEF Next, vars, OnlyFiles, OnlyWatch, OnlySettings, OnlyPage, OnlyChat
  <2> QED BY <1>2, <2>2, PartsStay DEF Runs
<1>3. Runs("client") => "client" \in moving
  BY DEF Runs
<1> QED BY <1>1, <1>2, <1>3, PTL DEF Spec, C!Spec

LEMMA PairRuns == Spec /\ "hands" \in moving => P!Spec /\ []("hands" \in moving)
<1>1. Init /\ "hands" \in moving => P!Init /\ Runs("hands")
  BY SamePair, StoreAssumption DEF Init, Runs
<1>2. ASSUME [Next]_vars, Runs("hands") PROVE Runs("hands")' /\ [P!Next]_(P!vars)
  <2>1. ~("client" \in moving) /\ ~("dry" \in moving)
    BY <1>2, StoreAssumption DEF Runs
  <2>2. [P!Next]_(P!vars)
    <3>1. CASE Pair!Next
      BY <3>1, SamePair
    <3>2. CASE UNCHANGED clientVars
      BY <3>2 DEF clientVars, P!vars, P!memory
    <3> QED BY <1>2, <2>1, <3>1, <3>2
        DEF Next, vars, OnlyFiles, OnlyWatch, OnlySettings, OnlyPage, OnlyChat
  <2> QED BY <1>2, <2>2, PartsStay DEF Runs
<1>3. Runs("hands") => "hands" \in moving
  BY DEF Runs
<1> QED BY <1>1, <1>2, <1>3, PTL DEF Spec, P!Spec

LEMMA DryRuns == Spec /\ "dry" \in moving => Dry!Spec /\ []("dry" \in moving)
<1>1. Init /\ "dry" \in moving => Dry!Init /\ Runs("dry")
  BY StoreAssumption DEF Init, Runs
<1>2. ASSUME [Next]_vars, Runs("dry") PROVE Runs("dry")' /\ [Dry!Next]_(Dry!vars)
  <2>1. ~("client" \in moving) /\ ~("hands" \in moving)
    BY <1>2, StoreAssumption DEF Runs
  <2>2. [Dry!Next]_(Dry!vars)
    <3>1. CASE UNCHANGED clientVars
      BY <3>1 DEF clientVars, Dry!vars, Dry!memory
    <3> QED BY <1>2, <2>1, <3>1
        DEF Next, vars, OnlyFiles, OnlyWatch, OnlySettings, OnlyPage, OnlyChat
  <2> QED BY <1>2, <2>2, PartsStay DEF Runs
<1>3. Runs("dry") => "dry" \in moving
  BY DEF Runs
<1> QED BY <1>1, <1>2, <1>3, PTL DEF Spec, Dry!Spec

LEMMA FilesRun == Spec /\ "files" \in moving => F!Spec /\ []("files" \in moving)
<1>1. Init /\ "files" \in moving => F!Init /\ Runs("files")
  BY SameFiles DEF Init, Runs
<1>2. ASSUME [Next]_vars, Runs("files") PROVE Runs("files")' /\ [F!Next]_(F!vars)
  <2>0. ~("lone" \in moving)
    BY <1>2, StoreAssumption DEF Runs
  <2>1. [F!Next]_(F!vars)
    <3>1. CASE Files!Next
      BY <3>1, SameFiles
    <3>2. CASE UNCHANGED fileVars
      BY <3>2 DEF fileVars, F!vars
    <3> QED BY <1>2, <2>0, <3>1, <3>2
        DEF Next, vars, OnlyChain, OnlyWatch, OnlySettings, OnlyPage, OnlyChat, webVars
  <2> QED BY <1>2, <2>1, PartsStay DEF Runs
<1>3. Runs("files") => "files" \in moving
  BY DEF Runs
<1> QED BY <1>1, <1>2, <1>3, PTL DEF Spec, F!Spec

LEMMA LoneRuns == Spec /\ "lone" \in moving => L!Spec /\ []("lone" \in moving)
<1>1. Init /\ "lone" \in moving => L!Init /\ Runs("lone")
  BY SameLone, StoreAssumption DEF Init, Runs
<1>2. ASSUME [Next]_vars, Runs("lone") PROVE Runs("lone")' /\ [L!Next]_(L!vars)
  <2>0. ~("files" \in moving)
    BY <1>2, StoreAssumption DEF Runs
  <2>1. [L!Next]_(L!vars)
    <3>1. CASE Lone!Next
      BY <3>1, SameLone
    <3>2. CASE UNCHANGED fileVars
      BY <3>2 DEF fileVars, L!vars
    <3> QED BY <1>2, <2>0, <3>1, <3>2
        DEF Next, vars, OnlyChain, OnlyWatch, OnlySettings, OnlyPage, OnlyChat, webVars
  <2> QED BY <1>2, <2>1, PartsStay DEF Runs
<1>3. Runs("lone") => "lone" \in moving
  BY DEF Runs
<1> QED BY <1>1, <1>2, <1>3, PTL DEF Spec, L!Spec

LEMMA WatchRuns == Spec /\ "watch" \in moving => Watch!Spec /\ []("watch" \in moving)
<1>1. Init /\ "watch" \in moving => Watch!Init /\ Runs("watch")
  BY DEF Init, Runs
<1>2. ASSUME [Next]_vars, Runs("watch") PROVE Runs("watch")' /\ [Watch!Next]_(Watch!vars)
  <2>1. [Watch!Next]_(Watch!vars)
    <3>1. CASE UNCHANGED watchVars
      BY <3>1 DEF watchVars, Watch!vars, Watch!reading
    <3> QED BY <1>2, <3>1
        DEF Next, vars, OnlyChain, OnlyFiles, OnlySettings, OnlyPage, OnlyChat, webVars
  <2> QED BY <1>2, <2>1, PartsStay DEF Runs
<1>3. Runs("watch") => "watch" \in moving
  BY DEF Runs
<1> QED BY <1>1, <1>2, <1>3, PTL DEF Spec, Watch!Spec

LEMMA FormRuns == Spec /\ "settings" \in moving => Form!Spec /\ []("settings" \in moving)
<1>1. Init /\ "settings" \in moving => Form!Init /\ Runs("settings")
  BY DEF Init, Runs
<1>2. ASSUME [Next]_vars, Runs("settings") PROVE Runs("settings")' /\ [Form!Next]_(Form!vars)
  <2>1. [Form!Next]_(Form!vars)
    <3>1. CASE UNCHANGED setVars
      BY <3>1 DEF setVars, Form!vars, Form!daemon, Form!page
    <3> QED BY <1>2, <3>1
        DEF Next, vars, OnlyChain, OnlyFiles, OnlyWatch, OnlyPage, OnlyChat, webVars
  <2> QED BY <1>2, <2>1, PartsStay DEF Runs
<1>3. Runs("settings") => "settings" \in moving
  BY DEF Runs
<1> QED BY <1>1, <1>2, <1>3, PTL DEF Spec, Form!Spec

LEMMA TalkRuns == Spec /\ "chat" \in moving => Talk!Spec /\ []("chat" \in moving)
<1>1. Init /\ "chat" \in moving => Talk!Init /\ Runs("chat")
  BY DEF Init, Runs
<1>2. ASSUME [Next]_vars, Runs("chat") PROVE Runs("chat")' /\ [Talk!Next]_(Talk!vars)
  <2>1. [Talk!Next]_(Talk!vars)
    <3>1. CASE UNCHANGED chatVars
      BY <3>1 DEF chatVars, Talk!vars, Talk!page
    <3> QED BY <1>2, <3>1
        DEF Next, vars, OnlyChain, OnlyFiles, OnlyWatch, OnlySettings, OnlyPage, webVars
  <2> QED BY <1>2, <2>1, PartsStay DEF Runs
<1>3. Runs("chat") => "chat" \in moving
  BY DEF Runs
<1> QED BY <1>1, <1>2, <1>3, PTL DEF Spec, Talk!Spec

(* A part that does not run never will. *)
LEMMA Rests ==
  /\ Spec /\ ~("client" \in moving) => []~("client" \in moving)
  /\ Spec /\ ~("hands" \in moving) => []~("hands" \in moving)
  /\ Spec /\ ~("dry" \in moving) => []~("dry" \in moving)
  /\ Spec /\ ~("files" \in moving) => []~("files" \in moving)
  /\ Spec /\ ~("lone" \in moving) => []~("lone" \in moving)
  /\ Spec /\ ~("watch" \in moving) => []~("watch" \in moving)
  /\ Spec /\ ~("settings" \in moving) => []~("settings" \in moving)
  /\ Spec /\ ~("chat" \in moving) => []~("chat" \in moving)
<1>1. Spec /\ ~("client" \in moving) => []~("client" \in moving)
  <2>1. ~("client" \in moving) /\ [Next]_vars => (~("client" \in moving))'
    BY PartsStay
  <2> QED BY <2>1, PTL DEF Spec
<1>2. Spec /\ ~("hands" \in moving) => []~("hands" \in moving)
  <2>1. ~("hands" \in moving) /\ [Next]_vars => (~("hands" \in moving))'
    BY PartsStay
  <2> QED BY <2>1, PTL DEF Spec
<1>3. Spec /\ ~("dry" \in moving) => []~("dry" \in moving)
  <2>1. ~("dry" \in moving) /\ [Next]_vars => (~("dry" \in moving))'
    BY PartsStay
  <2> QED BY <2>1, PTL DEF Spec
<1>4. Spec /\ ~("files" \in moving) => []~("files" \in moving)
  <2>1. ~("files" \in moving) /\ [Next]_vars => (~("files" \in moving))'
    BY PartsStay
  <2> QED BY <2>1, PTL DEF Spec
<1>5. Spec /\ ~("lone" \in moving) => []~("lone" \in moving)
  <2>1. ~("lone" \in moving) /\ [Next]_vars => (~("lone" \in moving))'
    BY PartsStay
  <2> QED BY <2>1, PTL DEF Spec
<1>6. Spec /\ ~("watch" \in moving) => []~("watch" \in moving)
  <2>1. ~("watch" \in moving) /\ [Next]_vars => (~("watch" \in moving))'
    BY PartsStay
  <2> QED BY <2>1, PTL DEF Spec
<1>7. Spec /\ ~("settings" \in moving) => []~("settings" \in moving)
  <2>1. ~("settings" \in moving) /\ [Next]_vars => (~("settings" \in moving))'
    BY PartsStay
  <2> QED BY <2>1, PTL DEF Spec
<1>8. Spec /\ ~("chat" \in moving) => []~("chat" \in moving)
  <2>1. ~("chat" \in moving) /\ [Next]_vars => (~("chat" \in moving))'
    BY PartsStay
  <2> QED BY <2>1, PTL DEF Spec
<1> QED BY <1>1, <1>2, <1>3, <1>4, <1>5, <1>6, <1>7, <1>8

---------------------------------------------------------------------------
(* The properties of the composition                                       *)

(* send-tx.ts and the chain client: a write that reports success has        *)
(* happened in full, though a transaction expired, another writer raced it, *)
(* and a chunk failed.                                                     *)
THEOREM WritesReportTruly == Spec => []SuccessLanded
<1>1. "client" \in moving /\ C!SuccessLanded => ("client" \in moving => Client!SuccessLanded)
  BY SameClient
<1>2. "hands" \in moving /\ P!SuccessLanded => ("hands" \in moving => Pair!SuccessLanded)
  BY SamePair
<1> QED BY <1>1, <1>2, ClientRuns, PairRuns, Rests, C!SuccessHasLanded, P!SuccessHasLanded, PTL
    DEF SuccessLanded

(* atomic-write.ts: when no two calls open the same temporary name, whatever *)
(* they write and wherever the process dies, the disk holds whole contents. *)
THEOREM DiskStaysWhole == ~SharedNames /\ Spec => []WholeOnDisk
<1>1. "files" \in moving /\ F!WholeOnDisk => WholeOnDisk
  BY SameFiles DEF WholeOnDisk
<1>2. ~("files" \in moving) => WholeOnDisk
  BY DEF WholeOnDisk
<1> QED BY <1>1, <1>2, FilesRun, Rests, F!WholeOnDiskHolds, PTL

(* cache.ts: every answer of the chain in use, the real or the simulated    *)
(* one, is the chain as it was at some moment, not before a forced question *)
(* was put.                                                                *)
THEOREM AnswersWereTrue == Spec => ReadsAreTrue
<1>1. /\ "client" \in moving /\ C!Reads!Init => ("client" \in moving => Client!Reads!Init)
      /\ "hands" \in moving /\ P!Reads!Init => ("hands" \in moving => Pair!Reads!Init)
  BY SameClient, SamePair
<1>2. "client" \in moving /\ [C!Reads!Next]_(C!Reads!vars)
        => [("client" \in moving => Client!Reads!Next)]_<<chain, asked, answer>>
  BY SameClient DEF C!Reads!vars
<1>3. "hands" \in moving /\ [P!Reads!Next]_(P!Reads!vars)
        => [("hands" \in moving => Pair!Reads!Next)]_<<chain, asked, answer>>
  BY SamePair DEF P!Reads!vars
<1>4. "dry" \in moving /\ [Dry!Reads!Next]_(Dry!Reads!vars)
        => [("dry" \in moving => Dry!Reads!Next)]_<<chain, asked, answer>>
  BY DEF Dry!Reads!vars
<1>5. /\ ~("client" \in moving) => [("client" \in moving => Client!Reads!Next)]_<<chain, asked, answer>>
      /\ ~("hands" \in moving) => [("hands" \in moving => Pair!Reads!Next)]_<<chain, asked, answer>>
      /\ ~("dry" \in moving) => [("dry" \in moving => Dry!Reads!Next)]_<<chain, asked, answer>>
  OBVIOUS
<1>6. /\ [("client" \in moving => Client!Reads!Next)]_<<chain, asked, answer>>
      /\ [("hands" \in moving => Pair!Reads!Next)]_<<chain, asked, answer>>
      /\ [("dry" \in moving => Dry!Reads!Next)]_<<chain, asked, answer>>
      => [/\ "client" \in moving => Client!Reads!Next
          /\ "hands" \in moving => Pair!Reads!Next
          /\ "dry" \in moving => Dry!Reads!Next]_<<chain, asked, answer>>
  OBVIOUS
<1> QED BY <1>1, <1>2, <1>3, <1>4, <1>5, <1>6, ClientRuns, PairRuns, DryRuns, Rests,
          C!ClientRefinesChainReads, P!ClientRefinesChainReads, DryRunRefinesChainReads, PTL
    DEF ReadsAreTrue, C!ReadsAreTrue, C!Reads!Spec, P!ReadsAreTrue, P!Reads!Spec,
      Dry!ReadsAreTrue, Dry!Reads!Spec

(* The repositories: one writer, whose reads do not fail, sees a register.  *)
THEOREM LoneAuthorHasRegister == ~SharedNames /\ Spec => LoneWriterIsAtomic
<1>0. ~SharedNames => L!Lone
  BY DEF L!Lone
<1>1. L!Register!Init => ("lone" \in moving => Lone!Register!Init)
  BY SameLone
<1>2. [L!Register!Next]_(L!Register!vars)
        => [("lone" \in moving => Lone!Register!Next)]_<<kind, Lone!Contents>>
  <2>1. L!Register!vars = <<kind, L!Contents>> /\ L!Register!vars' = <<kind', L!Contents'>>
    BY DEF L!Register!vars
  <2> QED BY <2>1, SameLone
<1>3. ~("lone" \in moving) => [("lone" \in moving => Lone!Register!Next)]_<<kind, Lone!Contents>>
  OBVIOUS
<1> QED BY <1>0, <1>1, <1>2, <1>3, LoneRuns, Rests, L!LoneWriterHasRegister, PTL
    DEF LoneWriterIsAtomic, L!LoneWriterIsAtomic, L!Register!Spec

(* The watcher, the settings and the chat, as they are composed: no mirror   *)
(* is closed for a pool its wallet never left (meteora-wallet-watcher.ts).   *)
THEOREM WatcherClosesNone == Spec => []NoFalseExit
<1>1. "watch" \in moving /\ Watch!NoFalseExit => NoFalseExit
  BY DEF NoFalseExit
<1>2. ~("watch" \in moving) => NoFalseExit
  BY DEF NoFalseExit
<1> QED BY <1>1, <1>2, WatchRuns, Rests, NoMirrorIsDropped, PTL

(* Every setting holds what was last asked for it, though the form is as old *)
(* as its page (ConfigForm.tsx).                                           *)
THEOREM ChangesStand == Spec => []NoChangeUndone
<1>1. "settings" \in moving /\ Form!NoChangeUndone => NoChangeUndone
  BY DEF NoChangeUndone
<1>2. ~("settings" \in moving) => NoChangeUndone
  BY DEF NoChangeUndone
<1> QED BY <1>1, <1>2, FormRuns, Rests, EditsStand, PTL

(* Every answer of the chat stands under its question (useChat.ts).         *)
THEOREM QuestionsAnswered == Spec => []EachAnswered
<1>1. "chat" \in moving /\ Talk!EachAnswered => EachAnswered
  BY DEF EachAnswered
<1>2. ~("chat" \in moving) => EachAnswered
  BY DEF EachAnswered
<1> QED BY <1>1, <1>2, TalkRuns, Rests, AnswersStand, PTL
=============================================================================
