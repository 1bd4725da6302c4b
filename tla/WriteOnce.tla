----------------------------- MODULE WriteOnce -----------------------------
(***************************************************************************)
(* What docs/CRASH_CONSISTENCY.md promises of every record a run creates,  *)
(* as a machine of three steps: say that the record may be written, write  *)
(* it at most once, and only then claim or deny it, according to what the  *)
(* target holds.  A record in doubt is lost to the protocol when something *)
(* is concluded, or its request repeated, before the fate of an earlier    *)
(* request is known.  RecordProtocol implements it.                        *)
(***************************************************************************)
EXTENDS Naturals

CONSTANT Record

VARIABLES
  known,   \* what the platform has on record of each source record
  copies   \* how often the target holds it

vars == <<known, copies>>

Init ==
  /\ known = [r \in Record |-> "no"]
  /\ copies = [r \in Record |-> 0]

\* One statement announces the creates of a whole page.
Announce(S) ==
  /\ S # {} /\ \A r \in S : known[r] = "no"
  /\ known' = [r \in Record |-> IF r \in S THEN "maybe" ELSE known[r]]
  /\ UNCHANGED copies

Write(r) ==
  /\ known[r] = "maybe" /\ copies[r] = 0
  /\ copies' = [copies EXCEPT ![r] = 1]
  /\ UNCHANGED known

Settle(r) ==
  /\ known[r] = "maybe"
  /\ known' = [known EXCEPT ![r] = IF copies[r] = 1 THEN "yes" ELSE "no"]
  /\ UNCHANGED copies

Again(r) == copies' = [copies EXCEPT ![r] = @ + 1]

Lose(r) ==
  /\ known[r] = "maybe"
  /\ known' = [known EXCEPT ![r] = "lost"]
  /\ Again(r) \/ UNCHANGED copies

WriteLost(r) == known[r] = "lost" /\ Again(r) /\ UNCHANGED known

Next ==
  \/ \E S \in SUBSET Record : Announce(S)
  \/ \E r \in Record : Write(r) \/ Settle(r) \/ Lose(r) \/ WriteLost(r)

Spec == Init /\ [][Next]_vars
=============================================================================
