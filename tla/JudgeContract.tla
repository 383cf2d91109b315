--------------------------- MODULE JudgeContract ---------------------------
(***************************************************************************)
(* What a bounded comparison promises its caller, whatever worlds, retries, *)
(* selections and replays it uses: it observes agreements and conflicts of   *)
(* the two queries and then publishes one verdict, which its observations   *)
(* must carry.  When executions repeat (Reliable), a single observed         *)
(* conflict settles the verdict.                                            *)
(***************************************************************************)
CONSTANT Reliable  \* does a query give the same answer on the same rows

VARIABLES seen, verdict

Observations == {"agreement", "conflict"}
Published == {"INCORRECT", "CORRECT", "UNDECIDED"}

Init == seen = {} /\ verdict = "pending"

Observe ==
  /\ verdict = "pending"
  /\ \E new \in SUBSET Observations : seen' = seen \cup new
  /\ UNCHANGED verdict

Justified(v) ==
  /\ v = "INCORRECT" => "conflict" \in seen
  /\ v = "CORRECT" => "agreement" \in seen
  /\ Reliable => ("conflict" \in seen <=> v = "INCORRECT")

Publish ==
  /\ verdict = "pending"
  /\ verdict' \in {v \in Published : Justified(v)}
  /\ UNCHANGED seen

Next == Observe \/ Publish

Spec == Init /\ [][Next]_<<seen, verdict>>
============================================================================
