------------------------------ MODULE Discovery ------------------------------
(***************************************************************************)
(* The candidates as Meteora's pool discovery answers them                 *)
(* (adapters/market/meteora-pool-discovery.ts).  The two generations of    *)
(* the API name and nest the fields differently; a field of a row is here  *)
(* the sequence of its places, in the order they are looked up, each of    *)
(* them nullable.  Times are in hours.                                     *)
(***************************************************************************)
EXTENDS Integers, Sequences, FiniteSets, SequencesExt, FiniteSetsExt

(* What a filter leaves of a list: the elements at the places in S, in order. *)
Nth(S, n)     == CHOOSE i \in S : Cardinality({j \in S : j <= i}) = n
Keep(list, S) == [n \in 1 .. Cardinality(S) |-> list[Nth(S, n)]]

(* The value of a field: that of the first place that has one.             *)
Resolve(places) ==
  LET known == {i \in DOMAIN places : places[i] # {}}
  IN  IF known = {} THEN {} ELSE places[Min(known)]

(* A row in which everything is missing, as the schema allows.             *)
RawPool ==
  [address |-> <<{}, {}>>, base |-> <<{}, {}, {}>>, tvl |-> <<{}>>, volume |-> <<{}, {}>>,
   feeActive |-> <<{}>>, feePlain |-> <<{}>>, organic |-> <<{}, {}, {}>>, holders |-> <<{}, {}, {}>>,
   mcap |-> <<{}, {}, {}>>, binStep |-> <<{}, {}, {}>>, launchpad |-> <<{}, {}>>,
   created |-> <<{}, {}>>, age |-> <<{}>>]

(* A creation in the future, or at zero, says nothing of the age.          *)
AgeHoursFromCreatedAt(created, now) == {now - c : c \in {x \in created : 0 < x /\ x <= now}}

(* The candidate of a row, {} when it has no mint, no address, or a field  *)
(* the candidate's schema refuses.  Unknown liquidity and volume are zero, *)
(* which the thresholds refuse; what else is unknown stays so.             *)
Normalize(raw, now) ==
  LET Zero(places) == IF Resolve(places) = {} THEN {0} ELSE Resolve(places)
      created == AgeHoursFromCreatedAt(Resolve(raw.created), now)
      age     == IF created # {} THEN created ELSE Resolve(raw.age)
      refused == \E v \in UNION {Resolve(raw.holders), Resolve(raw.mcap), Resolve(raw.binStep),
                                 Zero(raw.tvl), Zero(raw.volume), age} : v < 0
  IN  {[id |-> id, base |-> base, tvl |-> tvl, volume |-> volume,
        feeActive |-> Resolve(raw.feeActive), feePlain |-> Resolve(raw.feePlain),
        organic |-> Resolve(raw.organic), holders |-> Resolve(raw.holders),
        mcap |-> Resolve(raw.mcap), binStep |-> Resolve(raw.binStep),
        launchpad |-> Resolve(raw.launchpad), age |-> age] :
          id \in {x \in Resolve(raw.address) : ~refused}, base \in Resolve(raw.base),
          tvl \in Zero(raw.tvl), volume \in Zero(raw.volume)}

(* The candidates of one page, in its order; a body of another shape has   *)
(* none.  A request that fails or is late throws instead.                  *)
DiscoveryPage(rows, now) ==
  LET candidates == [i \in DOMAIN rows |-> Normalize(rows[i], now)]
      page       == Keep(candidates, {i \in DOMAIN rows : candidates[i] # {}})
  IN  [n \in DOMAIN page |-> CHOOSE c \in page[n] : TRUE]
=============================================================================
