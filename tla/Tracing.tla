-------------------------------- MODULE Tracing -------------------------------
(***************************************************************************)
(* The telemetry session of rag/tracing.py.  The threads of a run put a    *)
(* record on a bounded queue when a span begins and when it ends; one      *)
(* background thread takes them out and sends them.  The server may        *)
(* refuse, or never answer: "telemetry never owns pipeline execution".     *)
(*                                                                         *)
(* The run is the span rag_run around one span per pool thread.  What the  *)
(* metadata of a span says is left out.                                    *)
(***************************************************************************)
EXTENDS Integers, Sequences, SequencesExt

CONSTANTS
    Thread,     \* pool threads, each with one span inside of rag_run
    QueueSize   \* maxsize of the queue

QueueSizeAssumption == QueueSize \in Nat \ {0}

Run == "rag_run"

ThreadAssumption == Run \notin Thread

VARIABLES
    session,    \* whether a Session could be set up
    queue,      \* records: the span, and "post" or "patch"
    pc,         \* where the run and its threads are
    opened,     \* spans whose tree could be built
    failed,     \* spans that ended with an exception
    broken,     \* history: threads whose own work raised
    stopping,   \* the event close() sets
    worker,     \* where the sending thread is
    item,       \* the record it holds
    sent,       \* records the server has accepted, in order
    warned      \* "tracing unavailable or incomplete" was printed

vars == <<session, queue, pc, opened, failed, broken, stopping, worker, item, sent, warned>>

sending == <<stopping, worker, item, sent>>

Span == Thread \cup {Run}

Record == [span : Span, method : {"post", "patch"}]

Nothing == [span |-> Run, method |-> "none"]

Goes(s, next) == pc' = [pc EXCEPT ![s] = next]

-------------------------------------------------------------------------------
(* enqueue *)

(* Variant: it is given up without a word. *)
EnqueueQuietly(s, method) ==
    /\ queue' = IF Len(queue) < QueueSize
                THEN Append(queue, [span |-> s, method |-> method]) ELSE queue
    /\ UNCHANGED <<warned, failed>>

(* put_nowait: a record that finds the queue full is given up. *)
Enqueue(s, method) ==
    IF Len(queue) < QueueSize
    THEN queue' = Append(queue, [span |-> s, method |-> method]) /\ UNCHANGED <<warned, failed>>
    ELSE warned' = TRUE /\ UNCHANGED <<queue, failed>>

-------------------------------------------------------------------------------
(* span: around rag_run, and around the work of a thread. *)

(* The tree of the span may be impossible to build; then it has no records. *)
Open(s) ==
    /\ pc[s] = "open"
    /\ Goes(s, "body")
    /\ \/ ~session /\ UNCHANGED <<queue, opened, warned, failed>>
       \/ session /\ opened' = opened \cup {s} /\ Enqueue(s, "post")
       \/ session /\ warned' = TRUE /\ UNCHANGED <<queue, opened, failed>>
    /\ UNCHANGED <<session, broken, sending>>

(* The work of a thread, which may raise. *)
Work(t) ==
    /\ pc[t] = "body"
    /\ Goes(t, "exit")
    /\ \/ UNCHANGED <<failed, broken>>
       \/ failed' = failed \cup {t} /\ broken' = broken \cup {t}
    /\ UNCHANGED <<session, queue, opened, sending, warned>>

(* The run submits its threads from inside its span. *)
Submit ==
    /\ pc[Run] = "body"
    /\ pc' = [s \in Span |-> IF s = Run THEN "wait" ELSE "open"]
    /\ UNCHANGED <<session, queue, opened, failed, broken, sending, warned>>

(* It has their results, and the exception of one of them. *)
Join ==
    /\ pc[Run] = "wait"
    /\ \A t \in Thread : pc[t] = "ended"
    /\ Goes(Run, "exit")
    /\ failed' = IF failed = {} THEN {} ELSE failed \cup {Run}
    /\ UNCHANGED <<session, queue, opened, broken, sending, warned>>

(* The end of a span: its record is completed, and the exception goes on. *)
Exit(s) ==
    /\ pc[s] = "exit"
    /\ Goes(s, IF s = Run THEN "close" ELSE "ended")
    /\ IF s \in opened THEN Enqueue(s, "patch") ELSE UNCHANGED <<queue, warned, failed>>
    /\ UNCHANGED <<session, opened, broken, sending>>

-------------------------------------------------------------------------------
(* Session.close, in the finally of trace_run. *)

Close ==
    /\ pc[Run] = "close"
    /\ stopping' = session
    /\ Goes(Run, IF session THEN "join" ELSE "ended")
    /\ UNCHANGED <<session, queue, opened, failed, broken, worker, item, sent, warned>>

(* join(timeout=2.0): the worker has ended, or it is given up. *)
JoinWorker ==
    /\ pc[Run] = "join"
    /\ worker = "ended"
    /\ Goes(Run, "ended")
    /\ UNCHANGED <<session, queue, opened, failed, broken, sending, warned>>

JoinExpires ==
    /\ pc[Run] = "join"
    /\ worker # "ended"
    /\ warned' = TRUE
    /\ Goes(Run, "ended")
    /\ UNCHANGED <<session, queue, opened, failed, broken, sending>>

-------------------------------------------------------------------------------
(* Session._send, the background thread. *)

Take ==
    /\ worker = "get"
    /\ queue # <<>>
    /\ item' = Head(queue)
    /\ queue' = Tail(queue)
    /\ worker' = "send"
    /\ UNCHANGED <<session, pc, opened, failed, broken, stopping, sent, warned>>

(* 50 ms without a record. *)
TimesOut ==
    /\ worker = "get"
    /\ queue = <<>>
    /\ worker' = "idle"
    /\ UNCHANGED <<session, queue, pc, opened, failed, broken, stopping, item, sent, warned>>

(* Only then is the event looked at, and the queue not again: what was put *)
(* in between stays there when the sender leaves.                          *)
LookForStop ==
    /\ worker = "idle"
    /\ worker' = IF stopping THEN "closing" ELSE "get"
    /\ UNCHANGED <<session, queue, pc, opened, failed, broken, stopping, item, sent, warned>>

(* The server accepts the record, or the request raises; it may also hang. *)
Send ==
    /\ worker = "send"
    /\ \/ sent' = Append(sent, item) /\ UNCHANGED warned
       \/ warned' = TRUE /\ UNCHANGED sent
    /\ item' = Nothing
    /\ worker' = "get"
    /\ UNCHANGED <<session, queue, pc, opened, failed, broken, stopping>>

CloseClient ==
    /\ worker = "closing"
    /\ worker' = "ended"
    /\ warned' \in {warned, TRUE}
    /\ UNCHANGED <<session, queue, pc, opened, failed, broken, stopping, item, sent>>

-------------------------------------------------------------------------------

Init ==
    /\ session \in BOOLEAN
    /\ queue = <<>>
    /\ pc = [s \in Span |-> IF s = Run THEN "open" ELSE "unborn"]
    /\ opened = {}
    /\ failed = {}
    /\ broken = {}
    /\ stopping = FALSE
    /\ worker = IF session THEN "get" ELSE "ended"
    /\ item = Nothing
    /\ sent = <<>>
    /\ warned = FALSE

Pipeline ==
    \/ \E s \in Span : Open(s) \/ Exit(s)
    \/ \E t \in Thread : Work(t)
    \/ Submit \/ Join \/ Close \/ JoinWorker \/ JoinExpires

Worker == Take \/ TimesOut \/ LookForStop \/ Send \/ CloseClient

Next == Pipeline \/ Worker

(* The threads of the run go on, and the two seconds pass.  The worker is  *)
(* promised nothing: the server may hang, or the thread may starve.        *)
Spec == Init /\ [][Next]_vars /\ WF_vars(Pipeline)

-------------------------------------------------------------------------------
(* Properties. *)

(* Every variable has its type; the queue never outgrows its maxsize. *)
TypeOK ==
    /\ session \in BOOLEAN
    /\ queue \in Seq(Record) /\ Len(queue) <= QueueSize
    /\ pc \in [Span -> {"unborn", "open", "body", "wait", "exit", "close", "join", "ended"}]
    /\ opened \subseteq Span
    /\ failed \subseteq Span
    /\ broken \subseteq Thread
    /\ stopping \in BOOLEAN
    /\ worker \in {"get", "idle", "send", "closing", "ended"}
    /\ item \in Record \cup {Nothing}
    /\ sent \in Seq(Record)
    /\ warned \in BOOLEAN

(* Where a record is seen before another one. *)
Precedes(a, b) ==
    /\ a # b
    /\ a.span = b.span => a.method = "post"
    /\ a.span # Run => b # [span |-> Run, method |-> "post"]
    /\ a # [span |-> Run, method |-> "patch"]

(* Whatever is lost on the way, the server never sees the end of a span    *)
(* before its beginning, rag_run after a span inside of it, or anything    *)
(* after the end of rag_run; and what waits comes after what was sent.     *)
SentInOrder ==
    /\ \A i, j \in 1 .. Len(sent) : i < j => Precedes(sent[i], sent[j])
    /\ \A a \in ToSet(sent), b \in ToSet(queue) : Precedes(a, b)

(* The records of the run so far: the beginning of each span whose tree    *)
(* was built, and its end once it is over.                                 *)
Due == {[span |-> s, method |-> "post"] : s \in opened} \cup
       {[span |-> s, method |-> "patch"] :
            s \in {u \in opened : pc[u] \in {"close", "join", "ended"}}}

(* Sent, on its way, or waiting. *)
InLine(r) == r \in ToSet(sent) \cup ToSet(queue) \/ (worker = "send" /\ r = item)

(* Unless a warning was printed, no record has left the line but to the    *)
(* server.  A run that ends without one has lost only what is still in the *)
(* queue: what was put when the sender had already seen it empty and went  *)
(* on to find the stop event (rag/tracing.py:90).  By SentInOrder that is  *)
(* the last of the run.                                                    *)
NoneSkipped == ~warned => \A r \in Due : InLine(r)

(* The end of rag_run completes the trace: if it has arrived, and no       *)
(* warning was printed, both records of every span have.  So a silent loss *)
(* shows: the trace it leaves has no end.                                  *)
EndIsLast ==
    ~warned /\ [span |-> Run, method |-> "patch"] \in ToSet(sent) =>
        ToSet(sent) = Record

(* A run fails by the exception of its own work, never by its telemetry. *)
FailsOnItsOwn == failed \ {Run} = broken /\ (Run \in failed => broken # {})

(* A server that hangs, and a queue that is full, do not hold up the run. *)
Over == pc[Run] = "ended"

EveryRunEnds == <>Over

(* What telemetry promises the server, the run and the user.               *)
TraceIsSound == TypeOK /\ SentInOrder /\ NoneSkipped /\ EndIsLast /\ FailsOnItsOwn

===============================================================================
