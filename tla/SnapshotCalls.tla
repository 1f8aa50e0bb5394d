--------------------------- MODULE SnapshotCalls ---------------------------
(***************************************************************************)
(* The snapshot calls between the processes.  An HTTP handler calls the    *)
(* tokenizer manager, which sends the call to the scheduler and takes the  *)
(* next answer of that kind from an asyncio queue; the answers carry no    *)
(* mark of the call they belong to.  The scheduler answers in the order of *)
(* the calls, except that a restore that generates is answered when its    *)
(* request finishes.  Such a request is unknown to the tokenizer manager:  *)
(* when the scheduler drops it, it sends an AbortReq whose handling raises *)
(* KeyError, and the server is killed (print_exception_wrapper).           *)
(*                                                                         *)
(* An answer is named by the call it answers.  One tokenizer process; both *)
(* channels are ZeroMQ pipes, which keep the order and lose nothing.       *)
(***************************************************************************)
EXTENDS Naturals, Sequences, FiniteSets, Functions

CONSTANTS
    Call,       \* calls that may be made
    Kind,       \* the kinds of calls, each with a result queue of its own
    AbortReq,   \* a message to abort, or about an aborted request
    MaxAborts   \* bound: requests to abort everything

ASSUME CallAssumption ==
    IsFiniteSet(Call) /\ AbortReq \notin Call /\ "none" \notin Kind /\ MaxAborts \in Nat

NoCall == AbortReq

VARIABLES
    kind,       \* the kind of each call, "none" before it is made
    got,        \* the answer a call has returned with
    inbox,      \* messages to the scheduler
    job,        \* the request of a restore that generates
    outbox,     \* messages to the tokenizer manager
    answers,    \* the result queues (asyncio.Queue)
    getters,    \* the callers that sleep in get() of each queue
    woken,      \* those that have been woken and have not run yet
    loop,       \* handle_loop has been started
    serving,    \* the processes of the server are alive
    aborts,
    alone       \* history: the calls that met no other of their kind

vars == <<kind, got, inbox, job, outbox, answers, getters, woken, loop, serving,
          aborts, alone>>

queues == <<answers, getters, woken>>

Waiting(k) == {c \in Call : kind[c] = k /\ got[c] = NoCall}

-----------------------------------------------------------------------------
\* asyncio.Queue.get, by a new caller or by one that was woken: the first
\* answer if there is one, whoever was woken for it, else to sleep.
Get(c, k) ==
    IF answers[k] = <<>>
    THEN /\ getters' = [getters EXCEPT ![k] = Append(@, c)]
         /\ UNCHANGED <<got, answers>>
    ELSE /\ got' = [got EXCEPT ![c] = Head(answers[k])]
         /\ answers' = [answers EXCEPT ![k] = Tail(@)]
         /\ UNCHANGED getters

\* save_snapshot, list_snapshots, ...: the message is sent, and get() runs in
\* the same step of the event loop.
Issue(c, k) ==
    /\ serving /\ kind[c] = "none"
    /\ kind' = [kind EXCEPT ![c] = k]
    /\ inbox' = Append(inbox, c)
    /\ Get(c, k)
    /\ alone' = IF Waiting(k) = {} THEN alone \cup {c} ELSE alone \ Waiting(k)
    /\ UNCHANGED <<job, outbox, woken, loop, serving, aborts>>

Resume(k) ==
    /\ serving /\ woken[k] # <<>>
    /\ woken' = [woken EXCEPT ![k] = Tail(@)]
    /\ Get(Head(woken[k]), k)
    /\ UNCHANGED <<kind, inbox, job, outbox, loop, serving, aborts, alone>>

\* Mutant: nobody is woken while another caller is.
DrowsyPut(k, c) ==
    /\ answers' = [answers EXCEPT ![k] = Append(@, c)]
    /\ IF getters[k] = <<>> \/ woken[k] # <<>> THEN UNCHANGED <<getters, woken>>
       ELSE /\ getters' = [getters EXCEPT ![k] = Tail(@)]
            /\ woken' = [woken EXCEPT ![k] = Append(@, Head(getters[k]))]

\* put_nowait, which wakes one sleeper.
Put(k, c) ==
    /\ answers' = [answers EXCEPT ![k] = Append(@, c)]
    /\ IF getters[k] = <<>> THEN UNCHANGED <<getters, woken>>
       ELSE /\ getters' = [getters EXCEPT ![k] = Tail(@)]
            /\ woken' = [woken EXCEPT ![k] = Append(@, Head(getters[k]))]

\* handle_loop is started by the first generation, at the latest, and not by
\* the snapshot calls.
StartLoop ==
    /\ ~loop /\ loop' = TRUE
    /\ UNCHANGED <<kind, got, inbox, job, outbox, queues, serving, aborts, alone>>

\* A message reaches the tokenizer manager.
Deliver ==
    /\ serving /\ loop /\ outbox # <<>>
    /\ outbox' = Tail(outbox)
    /\ IF Head(outbox) = AbortReq
       THEN serving' = FALSE /\ UNCHANGED queues
       ELSE Put(kind[Head(outbox)], Head(outbox)) /\ UNCHANGED serving
    /\ UNCHANGED <<kind, got, inbox, job, loop, aborts, alone>>

\* pause_generation in mode abort, or an abort of all requests.
SendAbort ==
    /\ serving /\ aborts < MaxAborts
    /\ aborts' = aborts + 1
    /\ inbox' = Append(inbox, AbortReq)
    /\ UNCHANGED <<kind, got, job, outbox, queues, loop, serving, alone>>

-----------------------------------------------------------------------------
(***************************************************************************)
(* The scheduler (process_input_requests and the output streamer)          *)
(***************************************************************************)
Receive(m) ==
    /\ serving /\ inbox # <<>> /\ m = Head(inbox)
    /\ inbox' = Tail(inbox)
    /\ UNCHANGED <<kind, got, queues, loop, serving, aborts, alone>>

\* A handler that returns its answer: all of them but a restore that has
\* created a request with a continuation, and that one too when it fails.
HandleAtOnce(c) ==
    /\ Receive(c)
    /\ outbox' = Append(outbox, c)
    /\ UNCHANGED job

\* Mutant: any call may create a request.
UncheckedHandleGenerate(c) ==
    /\ Receive(c)
    /\ job' = [job EXCEPT ![c] = "waiting"]
    /\ UNCHANGED outbox

\* Mutant: the handler answers, and so does the request.
AnsweringHandleGenerate(c) ==
    /\ Receive(c) /\ kind[c] = "restore"
    /\ job' = [job EXCEPT ![c] = "waiting"]
    /\ outbox' = Append(outbox, c)

\* A restore that has created a request with a continuation returns nothing: the
\* request is to answer.
HandleGenerate(c) ==
    /\ Receive(c) /\ kind[c] = "restore"
    /\ job' = [job EXCEPT ![c] = "waiting"]
    /\ UNCHANGED outbox

\* Mutant: a rejection is told to nobody.
SilentHandleRejected(c) == Receive(c) /\ kind[c] = "restore" /\ UNCHANGED <<job, outbox>>

\* The same, with the waiting queue full: the handler does not see that its
\* request has been rejected, and leaves the answer to it.
HandleRejected(c) ==
    /\ Receive(c) /\ kind[c] = "restore"
    /\ outbox' = Append(outbox, AbortReq)
    /\ UNCHANGED job

\* abort_request: a waiting request is dropped, with an AbortReq for each (the
\* first is enough here); a running one finishes with its next token.
HandleAbort ==
    /\ Receive(AbortReq)
    /\ job' = [c \in Call |-> IF job[c] = "waiting" THEN "none" ELSE job[c]]
    /\ outbox' = IF \E c \in Call : job[c] = "waiting"
                 THEN Append(outbox, AbortReq) ELSE outbox

\* _abort_on_waiting_timeout
TimeOut(c) ==
    /\ serving /\ job[c] = "waiting"
    /\ job' = [job EXCEPT ![c] = "none"]
    /\ outbox' = Append(outbox, AbortReq)
    /\ UNCHANGED <<kind, got, inbox, queues, loop, serving, aborts, alone>>

Work(c, from, to) ==
    /\ serving /\ job[c] = from
    /\ job' = [job EXCEPT ![c] = to]
    /\ UNCHANGED <<kind, got, inbox, queues, loop, serving, aborts, alone>>

Start(c) == Work(c, "waiting", "running") /\ UNCHANGED outbox
Retract(c) == Work(c, "running", "waiting") /\ UNCHANGED outbox

\* Mutant: finished_output is not set.
RepeatedFinish(c) == Work(c, "running", "running") /\ outbox' = Append(outbox, c)

\* The request finishes, by itself or aborted; finished_output is set, so that
\* the answer is sent once.
Finish(c) == Work(c, "running", "none") /\ outbox' = Append(outbox, c)

-----------------------------------------------------------------------------
Init ==
    /\ kind = [c \in Call |-> "none"] /\ got = [c \in Call |-> NoCall]
    /\ inbox = <<>> /\ outbox = <<>> /\ job = [c \in Call |-> "none"]
    /\ answers = [k \in Kind |-> <<>>] /\ getters = [k \in Kind |-> <<>>]
    /\ woken = [k \in Kind |-> <<>>]
    /\ loop = FALSE /\ serving = TRUE /\ aborts = 0 /\ alone = {}

Handle ==
    HandleAbort \/ \E c \in Call : HandleAtOnce(c) \/ HandleGenerate(c) \/ HandleRejected(c)

Next ==
    \/ \E c \in Call, k \in Kind : Issue(c, k)
    \/ \E k \in Kind : Resume(k)
    \/ StartLoop \/ Deliver \/ SendAbort \/ Handle
    \/ \E c \in Call : TimeOut(c) \/ Start(c) \/ Retract(c) \/ Finish(c)

\* The event loops of both processes run on, and a request that is started
\* again and again finishes (EveryRequestCompletes of RestoreScheduler).
Fairness ==
    /\ WF_vars(Handle) /\ WF_vars(Deliver)
    /\ \A k \in Kind : WF_vars(Resume(k))
    /\ \A c \in Call : WF_vars(Start(c)) /\ SF_vars(Finish(c))

Spec == Init /\ [][Next]_vars /\ Fairness

-----------------------------------------------------------------------------
(***************************************************************************)
(* Properties                                                              *)
(***************************************************************************)
\* Every message is about a call that has been made, callers sleep in the
\* queue of their own kind, and only a restore has a request.
TypeOK ==
    /\ kind \in [Call -> Kind \cup {"none"}] /\ got \in [Call -> Call \cup {NoCall}]
    /\ inbox \in Seq(Call \cup {AbortReq}) /\ outbox \in Seq(Call \cup {AbortReq})
    /\ job \in [Call -> {"none", "waiting", "running"}]
    /\ answers \in [Kind -> Seq(Call)] /\ getters \in [Kind -> Seq(Call)]
    /\ woken \in [Kind -> Seq(Call)]
    /\ loop \in BOOLEAN /\ serving \in BOOLEAN /\ aborts \in Nat /\ alone \subseteq Call
    /\ \A c \in Call : job[c] # "none" => kind[c] = "restore"
    /\ \A c \in Call : c \in Range(inbox) \cup Range(outbox) => kind[c] # "none"

\* The calls of kind k whose answer is still to be taken.
Owed(k) ==
    {c \in Call : /\ kind[c] = k
                  /\ \/ c \in Range(inbox) \cup Range(outbox) \cup Range(answers[k])
                     \/ job[c] # "none"}

\* There are never more answers under way than callers that wait for them: no
\* answer can be left over for a call that is made later.
NoAnswerLeftOver == \A k \in Kind : Cardinality(Owed(k)) <= Cardinality(Waiting(k))

\* An answer is taken by one caller at most.
AnswersTakenOnce == \A c, d \in Call : got[c] = got[d] /\ got[c] # NoCall => c = d

\* A call during which no other call of its kind was waiting returns with its
\* own answer: a client that makes its calls one after the other may trust
\* the result queues.
LoneCallGetsItsAnswer == \A c \in alone : got[c] \in {c, NoCall}

\* For every answer in a queue a caller has been woken: none can wait for an
\* answer that is already there, although a new caller may take it first.
NoLostWakeup == \A k \in Kind : Len(answers[k]) <= Len(woken[k])

\* Every call returns once handle_loop runs, unless the process goes down.
CallsReturn ==
    \A c \in Call : (loop /\ kind[c] # "none") ~> (got[c] # NoCall \/ ~serving)

\* What the comment on the result queues says: results are routed back to
\* their callers.
AnswersReachTheirCallers == \A c \in Call : got[c] \in {c, NoCall}

=============================================================================
