------------------------- MODULE ExecutionPipeline --------------------------
(***************************************************************************)
(* The executor: Blockchain/src/execution/execution-pipeline.ts with its   *)
(* submitter, receipt client and idempotency store, and as much of the     *)
(* chain as they depend on.                                                *)
(*                                                                         *)
(* One `execute' call runs from the idempotency check through build,       *)
(* validation and simulation to the broadcast, and on to the receipt, with *)
(* an await between each; several calls, also for one execution, may be    *)
(* under way at once.  The store is in memory: a restart empties it.  Each *)
(* call broadcasts at most one transaction, so a transaction is named by   *)
(* the call that sent it.  Core mints one execution per idempotency key    *)
(* (unique index, schema.prisma:689), so the key is the execution here.    *)
(***************************************************************************)
EXTENDS Naturals, FiniteSets

CONSTANTS
    Exec,     \* execution ids, one per idempotency key
    Call,     \* bound: the execute calls that may ever be made
    NoTx,     \* transaction_hash: null
    Restarts  \* bound: restarts of the executor process

ASSUME NoTxType == NoTx \notin Call
ASSUME RestartsType == Restarts \in Nat

VARIABLES
    store,      \* the recorded ExecutionResult of each execution
    call,       \* where each execute call stands, and what it returned
    chain,      \* the transaction each call sent
    restarts,
    unguarded,  \* history: executions a second call could miss the record of
    lost        \* history: executions with a broadcast accepted, reply lost

executorVars == <<store, call, chain, restarts, unguarded, lost>>

Result == {"PENDING", "CONFIRMED", "FAILED", "UNKNOWN"}
NoRecord == [result |-> "none", tx |-> NoTx]

ExecutorTypeOK ==
    /\ store \in [Exec -> [result: Result \cup {"none"}, tx: Call \cup {NoTx}]]
    /\ call \in [Call -> [at: {"unused", "checked", "sending", "waiting",
                               "returned", "threw"},
                          exec: Exec,
                          answer: Result \cup {"none"}]]
    /\ chain \in [Call -> {"none", "pending", "success", "reverted"}]
    /\ restarts \in 0 .. Restarts
    /\ unguarded \subseteq Exec
    /\ lost \subseteq Exec

ExecutorInit ==
    /\ store = [e \in Exec |-> NoRecord]
    /\ call \in [Call -> [at: {"unused"}, exec: Exec, answer: {"none"}]]
    /\ chain = [c \in Call |-> "none"]
    /\ restarts = 0
    /\ unguarded = {}
    /\ lost = {}

-----------------------------------------------------------------------------
Sent(e) == {c \in Call : call[c].exec = e /\ chain[c] # "none"}

(* Calls on e that have passed the idempotency check and recorded nothing. *)
Unrecorded(e) ==
    {c \in Call : call[c].exec = e /\ call[c].at \in {"checked", "sending"}}

Returns(c, r) == [call EXCEPT ![c].at = "returned", ![c].answer = r]

(* Mutant of HasRecord: only a confirmed payment counts as done. *)
HasConfirmed(e) == store[e].result = "CONFIRMED"

(* The idempotency check. *)
HasRecord(e) == store[e] # NoRecord

(* A record for the key is returned as it is. *)
Replay(c) ==
    LET e == call[c].exec IN
    /\ call[c].at = "unused"
    /\ HasRecord(e)
    /\ call' = Returns(c, store[e].result)
    /\ UNCHANGED <<store, chain, restarts, unguarded, lost>>

(* No record: the call goes on to the awaits of steps 1 to 5.              *)
Start(c) ==
    LET e == call[c].exec IN
    /\ call[c].at = "unused"
    /\ ~HasRecord(e)
    /\ call' = [call EXCEPT ![c].at = "checked"]
    /\ unguarded' = IF Unrecorded(e) # {} THEN unguarded \cup {e} ELSE unguarded
    /\ UNCHANGED <<store, chain, restarts, lost>>

(* Chain match, analysis, validation, simulation or freshness refuses: the *)
(* call throws, nothing is sent and nothing recorded.                      *)
Refuse(c) ==
    /\ call[c].at = "checked"
    /\ call' = [call EXCEPT ![c].at = "threw"]
    /\ UNCHANGED <<store, chain, restarts, unguarded, lost>>

(* sendTransaction leaves the process; the node accepts it or does not.    *)
Send(c) ==
    /\ call[c].at = "checked"
    /\ call' = [call EXCEPT ![c].at = "sending"]
    /\ \E got \in {"none", "pending"} : chain' = [chain EXCEPT ![c] = got]
    /\ UNCHANGED <<store, restarts, unguarded, lost>>

(* The hash comes back: record PENDING, then await the receipt.            *)
Submitted(c) ==
    /\ call[c].at = "sending"
    /\ chain[c] # "none"
    /\ store' = [store EXCEPT ![call[c].exec] = [result |-> "PENDING", tx |-> c]]
    /\ call' = [call EXCEPT ![c].at = "waiting"]
    /\ UNCHANGED <<chain, restarts, unguarded, lost>>

(* sendTransaction throws, refused by the node or with its reply lost: the *)
(* submitter wraps every cause as SUBMISSION_FAILED, so the UNKNOWN put by *)
(* the pipeline is overwritten by FAILED before the call returns.          *)
SubmissionFailed(c) ==
    LET e == call[c].exec IN
    /\ call[c].at = "sending"
    /\ store' = [store EXCEPT ![e] = [result |-> "FAILED", tx |-> NoTx]]
    /\ call' = Returns(c, "FAILED")
    /\ lost' = IF chain[c] = "none" THEN lost ELSE lost \cup {e}
    /\ UNCHANGED <<chain, restarts, unguarded>>

(* Mutant of Outcome: a mined receipt is taken for a success. *)
MinedIsSuccess(c) == "CONFIRMED"

(* What a mined transaction's receipt says. *)
Outcome(c) == IF chain[c] = "success" THEN "CONFIRMED" ELSE "FAILED"

(* The receipt arrives within the timeout. *)
Receipt(c) ==
    /\ call[c].at = "waiting"
    /\ chain[c] \in {"success", "reverted"}
    /\ store' = [store EXCEPT ![call[c].exec] = [result |-> Outcome(c), tx |-> c]]
    /\ call' = Returns(c, Outcome(c))
    /\ UNCHANGED <<chain, restarts, unguarded, lost>>

(* Mutant of TimedOut: no receipt is taken for a failure. *)
TimedOutIsFailed == "FAILED"

TimedOut == "UNKNOWN"

(* No receipt within the timeout, though the transaction may be mined.     *)
Timeout(c) ==
    /\ call[c].at = "waiting"
    /\ store' = [store EXCEPT ![call[c].exec] = [result |-> TimedOut, tx |-> c]]
    /\ call' = Returns(c, TimedOut)
    /\ UNCHANGED <<chain, restarts, unguarded, lost>>

(* The polling fallback's getReceipt throws RPC_ERROR: execute throws, and *)
(* the record stays PENDING.                                               *)
ReceiptLookupFails(c) ==
    /\ call[c].at = "waiting"
    /\ call' = [call EXCEPT ![c].at = "threw"]
    /\ UNCHANGED <<store, chain, restarts, unguarded, lost>>

Mine(c) ==
    /\ chain[c] = "pending"
    /\ \E outcome \in {"success", "reverted"} :
          chain' = [chain EXCEPT ![c] = outcome]
    /\ UNCHANGED <<store, call, restarts, unguarded, lost>>

(* The process restarts: calls in flight are gone, and so is the store.    *)
Restart ==
    /\ restarts < Restarts
    /\ restarts' = restarts + 1
    /\ store' = [e \in Exec |-> NoRecord]
    /\ call' = [c \in Call |->
                  IF call[c].at \in {"checked", "sending", "waiting"}
                  THEN [call[c] EXCEPT !.at = "threw"] ELSE call[c]]
    /\ unguarded' = unguarded \cup {e \in Exec : store[e] # NoRecord \/ Sent(e) # {}}
    /\ UNCHANGED <<chain, lost>>

ExecutorNext ==
    \/ \E c \in Call :
          \/ Replay(c) \/ Start(c) \/ Refuse(c) \/ Send(c)
          \/ Submitted(c) \/ SubmissionFailed(c)
          \/ Receipt(c) \/ Timeout(c) \/ ReceiptLookupFails(c)
          \/ Mine(c)
    \/ Restart

ExecutorSpec == ExecutorInit /\ [][ExecutorNext]_executorVars

-----------------------------------------------------------------------------
(* getResult answers from the record alone, and throws without one.        *)
GetResult(e) == store[e].result

(* verify re-fetches the receipt of the recorded hash and compares the     *)
(* actual effects with the authorized ones; a transaction built from the   *)
(* authorized intent that succeeds has them.  Without a record, a hash or  *)
(* a receipt it throws.                                                    *)
CanVerify(e) == store[e].tx # NoTx /\ chain[store[e].tx] \in {"success", "reverted"}
Verified(e) == CanVerify(e) /\ chain[store[e].tx] = "success"

-----------------------------------------------------------------------------
(* "never broadcast twice for the same logical key"                        *)
(* (execution-pipeline.ts:11) holds of retries made one after the other in *)
(* one process: once a call has recorded anything, no later call sends.    *)
AtMostOneBroadcast ==
    \A e \in Exec \ unguarded : \A c, d \in Sent(e) : c = d

(* A recorded final outcome is the chain's: nothing is called CONFIRMED    *)
(* unless its own transaction succeeded, or FAILED with a hash unless it   *)
(* reverted (execution-pipeline.ts:132-135).                               *)
RecordMatchesChain ==
    \A e \in Exec : store[e].tx # NoTx =>
        /\ store[e].result = "CONFIRMED" => chain[store[e].tx] = "success"
        /\ store[e].result = "FAILED" => chain[store[e].tx] = "reverted"

(* What execute has answered as final stays true: a caller told CONFIRMED  *)
(* or FAILED is never contradicted by what the chain does to the           *)
(* execution later, unless a broadcast's reply was lost or a second call   *)
(* raced it.                                                               *)
AnswerIsFinal ==
    \A c \in Call : LET e == call[c].exec IN
        e \notin unguarded \cup lost =>
           /\ call[c].answer = "CONFIRMED" => \E d \in Sent(e) : chain[d] = "success"
           /\ call[c].answer = "FAILED" => \A d \in Sent(e) : chain[d] = "reverted"
=============================================================================
