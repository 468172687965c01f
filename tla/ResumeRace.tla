----------------------------- MODULE ResumeRace -----------------------------
(***************************************************************************)
(* SequentialBatchActor with one more history variable: the resume_publish *)
(* calls the application made when it had seen every earlier future        *)
(* resolve, as the example of Publisher::resume_publish does.              *)
(***************************************************************************)
EXTENDS SequentialBatchActor

VARIABLE informed

\* The command submitted by this step, if any, is a resume made when no
\* earlier message was outstanding.
InformedResume ==
    /\ hist' # hist
    /\ hist'[Len(hist')].op = "resume"
    /\ \A m \in 1..Len(hist) : hist[m].op = "publish" => fut[m] # "waiting"

RaceInit == Init /\ informed = {}

RaceNext ==
    /\ Next
    /\ informed' = IF InformedResume THEN informed \cup {Len(hist')} ELSE informed

RaceSpec == RaceInit /\ [][RaceNext]_<<vars, informed>>

\* After the application saw a failure and called resume_publish, as in the
\* example of client.rs:163-167, a message published on the key is rejected
\* with OrderingKeyPaused only if a message sent after the resume failed.
ResumeTakesEffect ==
    \A r \in informed : \A m \in (r + 1)..Len(hist) :
        fut[m] = "paused" =>
            \E n \in (r + 1)..(m - 1) : fut[n] \in {"rpc", "shutdown"}
=============================================================================
