------------------------------ MODULE Presence ------------------------------
(***************************************************************************)
(* What the disappearance rules promise, told with a counter for every     *)
(* advertisement that the code does not have: `missed`, the healthy scans  *)
(* in a row that did not find it.  A scan finds a set of advertisements;   *)
(* what was found is taken in, one at a time; and a judgement of the       *)
(* latest scan says of every advertisement in the inventory whether it is  *)
(* there, missing or removed, and takes the listings that have nothing     *)
(* left out of the inventory, all of them or none.                         *)
(*                                                                         *)
(* The promise is for judgements in turn: of the latest scan, with         *)
(* everything it found taken in.  After one out of turn (lax) there is     *)
(* none.  Disappearance.tla implements this.                               *)
(***************************************************************************)
EXTENDS Naturals

CONSTANTS Links,        \* advertisements of the source
          Listings,     \* the listings they advertise
          ListingOf,    \* the listing of each
          Overridden,   \* listings whose lifecycle a human has fixed
          MinElapsed    \* how long an advertisement is missed before removal

VARIABLES now,
          latest,       \* what the latest scan found, and whether it was healthy
          missed,       \* healthy scans in a row without the advertisement
          lastFound,    \* when it was found last, 0 if never
          status,       \* what the inventory says of it
          life,         \* what the inventory says of its listing
          lax           \* a judgement was passed out of turn

presenceVars == <<now, latest, missed, lastFound, status, life, lax>>

PresenceInit ==
    /\ now = 0
    /\ latest = [found |-> {}, healthy |-> FALSE]
    /\ missed = [l \in Links |-> 0]
    /\ lastFound = [l \in Links |-> 0]
    /\ status = [l \in Links |-> "none"]
    /\ life = [x \in Listings |-> "none"]
    /\ lax = FALSE

Wait ==
    /\ now' = now + 1
    /\ UNCHANGED <<latest, missed, lastFound, status, life, lax>>

Scan(found, healthy) ==
    /\ now' = now + 1
    /\ latest' = [found |-> found, healthy |-> healthy]
    /\ missed' = [l \in Links |-> IF l \in found THEN 0
                                  ELSE IF healthy THEN missed[l] + 1 ELSE missed[l]]
    /\ lastFound' = [l \in Links |-> IF l \in found THEN now' ELSE lastFound[l]]
    /\ UNCHANGED <<status, life, lax>>

\* The first advertisement of a listing makes it a candidate.
TakeIn(l) ==
    /\ lastFound[l] # 0 /\ status[l] = "none"
    /\ status' = [status EXCEPT ![l] = "ACTIVE"]
    /\ life' = [life EXCEPT ![ListingOf[l]] = IF @ = "none" THEN "CANDIDATE" ELSE @]
    /\ UNCHANGED <<now, latest, missed, lastFound, lax>>

Advertise(x) ==
    /\ life[x] = "CANDIDATE"
    /\ \E l \in Links : ListingOf[l] = x /\ status[l] = "ACTIVE"
    /\ life' = [life EXCEPT ![x] = "ACTIVE"]
    /\ UNCHANGED <<now, latest, missed, lastFound, status, lax>>

Judged(l) ==
    IF status[l] \in {"none", "REMOVED"} THEN status[l]
    ELSE IF l \in latest.found THEN "ACTIVE"
    ELSE IF missed[l] >= 2 /\ now - lastFound[l] >= MinElapsed THEN "REMOVED"
    ELSE "MISSING"

\* The listings whose last advertisement the judgement removes.
Unsupported ==
    {x \in Listings \ Overridden :
        /\ life[x] \in {"CANDIDATE", "ACTIVE"}
        /\ \A l \in Links : ListingOf[l] = x => Judged(l) \in {"none", "REMOVED"}}

Judge ==
    /\ latest.healthy
    /\ \A l \in Links : lastFound[l] # 0 => status[l] # "none"
    /\ status' = [l \in Links |-> Judged(l)]
    /\ life' \in {life, [x \in Listings |-> IF x \in Unsupported THEN "INACTIVE" ELSE life[x]]}
    /\ UNCHANGED <<now, latest, missed, lastFound, lax>>

PresenceNext ==
    \/ Wait
    \/ \E found \in SUBSET Links, healthy \in BOOLEAN : Scan(found, healthy)
    \/ \E l \in Links : TakeIn(l)
    \/ \E x \in Listings : Advertise(x)
    \/ Judge
    \/ lax' = TRUE

PresenceSpec == PresenceInit /\ [][PresenceNext]_presenceVars
=============================================================================
