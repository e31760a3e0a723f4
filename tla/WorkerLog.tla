------------------------------ MODULE WorkerLog ------------------------------
(***************************************************************************)
(* What one pipeline execution leaves for its owner to read: the live      *)
(* console stream, the bounded execution log and the typed failure         *)
(* diagnostic.  A child process writes chunks to two streams; a write goes *)
(* to the durable sink, shared by the streams, and through the stream's    *)
(* own redactor to the console.  A sequence of symbols stands for bytes:   *)
(* "n" a newline, "R" the text [REDACTED], "E" the escape rune, "F" and    *)
(* "S" the JSON of a worker_failure and a worker_start record, "M" the     *)
(* text of the truncation marker.                                          *)
(***************************************************************************)
EXTENDS Naturals, SequencesExt

CONSTANTS
    Secret,        \* the API key
    Chunks,        \* what the child may write at once
    MaxLog,        \* maxPipelineLog
    Held,          \* maxDiagnosticPending
    FrameBytes,    \* liveFrameBytes
    MaxWrites,     \* bytes after which the first task's child stops; later ones
                   \* stop sooner
    MaxTasks       \* bound on the tasks of the execution

Marker == <<"n", "M", "n">>
FailureRecord == <<"F", "n">>
StartRecord == <<"S", "n">>
Continuation == <<"E", "c", "n">>
Streams == {"stdout", "stderr"}
Reasons == {"synto_run", "receipt_recording"}

(* The bounds of main.go in small: a key is shorter than the sink's tail,  *)
(* a longer write is handled in pieces of at most the tail, and a record   *)
(* fits a log.                                                             *)
ASSUME LogAssumption ==
    /\ Secret # <<>> /\ Len(Secret) <= Held
    /\ \A c \in Chunks : c # <<>> /\ Len(c) <= Held
    /\ MaxLog > Len(FailureRecord) + Len(Marker)
    /\ FrameBytes > Len(Continuation) + 1

VARIABLES
    mode,       \* "cloud" or "local"
    task,       \* [n, at]: the task and how far it is
    child,      \* child[s]: all the task's child wrote to a stream
    joint,      \* the same bytes in the order the sink received them
    live,       \* live[s]: [out, pending, frame, on]
    sink,       \* [pending, output, truncated, on]
    file,       \* the workspace's log
    stored,     \* the log object or the vault's log
    diag,       \* the failure diagnostic object
    shown       \* the diagnostic in the owner's last status response

logVars == <<mode, task, child, joint, live, sink, file, stored, diag, shown>>

(* A log with, for the properties, the redacted child output it stands for, *)
(* whether the sink was able to write all of it, and whether the worker has *)
(* recorded a failure in it.                                                *)
NoLog == [data |-> <<"absent">>, text |-> <<>>, whole |-> FALSE, recorded |-> FALSE]
NoDiagnostic == [reason |-> "none", fields |-> {}]
NoStreams == [s \in Streams |-> [out |-> <<>>, pending |-> <<>>, frame |-> 0, on |-> FALSE]]
QuietSink == [pending |-> <<>>, output |-> <<>>, truncated |-> FALSE, on |-> FALSE]

LogInit ==
    /\ mode \in {"cloud", "local"}
    /\ task = [n |-> 1, at |-> "start"]
    /\ child = [s \in Streams |-> <<>>] /\ joint = <<>>
    /\ live = NoStreams
    /\ sink = QuietSink
    /\ file = NoLog /\ stored = NoLog
    /\ diag = NoDiagnostic /\ shown = "unread"

----------------------------------------------------------------------------
(* Redaction.                                                               *)

TaskAt(d, i, word) ==
    i + Len(word) <= Len(d) + 1 /\ SubSeq(d, i, i + Len(word) - 1) = word

SecretAt(d, i) == TaskAt(d, i, Secret)

(* Mutant: a secret that a chunk begins is not held back.                  *)
KeepNothing(d) == 0

longestSecretPrefixSuffix(d) ==
    Max({n \in 0 .. Min({Len(Secret) - 1, Len(d)}) :
            SubSeq(d, Len(d) - n + 1, Len(d)) = SubSeq(Secret, 1, n)})

(* process: replace the secrets from the left; unless these are the last   *)
(* bytes, hold back an end that may turn out to begin a secret.            *)
Process(d, final) ==
    LET From[i \in 1 .. Len(d) + 1] ==
        LET hits == {j \in i .. Len(d) : SecretAt(d, j)}
            rest == SubSeq(d, i, Len(d))
            cut == IF final THEN Len(rest) ELSE Len(rest) - longestSecretPrefixSuffix(rest)
        IN IF hits = {}
           THEN [out |-> SubSeq(rest, 1, cut), pending |-> SubSeq(rest, cut + 1, Len(rest))]
           ELSE LET j == Min(hits)
                    next == From[j + Len(Secret)]
                IN [out |-> SubSeq(d, i, j - 1) \o <<"R">> \o next.out,
                    pending |-> next.pending]
    IN From[1]

redactDiagnosticBytes(d) == Process(d, TRUE).out

(* Frames: the escape rune is doubled, and a physical line that is full    *)
(* ends in a continuation token.                                           *)
TokenUnescaped(b) == <<b>>

Token(b) == IF b = "E" THEN <<"E", "E">> ELSE <<b>>

appendEncodedToken(f, token) ==
    IF token = <<"n">>
    THEN [out |-> f.out \o token, frame |-> 0]
    ELSE LET full == f.frame > 0 /\ Len(token) + Len(Continuation) + f.frame > FrameBytes
         IN [out |-> f.out \o (IF full THEN Continuation ELSE <<>>) \o token,
             frame |-> (IF full THEN 0 ELSE f.frame) + Len(token)]

encodedLiveData(l, d) ==
    FoldLeft(LAMBDA f, b : appendEncodedToken(f, Token(b)),
             [out |-> <<>>, frame |-> l.frame], d)

(* A physical line the console does not take disables the stream.          *)
EmitLive(l, d, delivered) ==
    LET f == encodedLiveData(l, d) IN
    [l EXCEPT !.out = IF l.on /\ delivered THEN @ \o f.out ELSE @,
              !.frame = f.frame,
              !.on = @ /\ (delivered \/ f.out = <<>>)]

liveWrite(s, d, final, delivered) ==
    LET p == Process(live[s].pending \o d, final) IN
    [EmitLive(live[s], p.out, delivered) EXCEPT !.pending = p.pending]

----------------------------------------------------------------------------
(* The durable sink.                                                        *)

(* Do not cut a secret that lies across the boundary.                      *)
safeDiagnosticEmit(p, emit) ==
    LET Begins(b) == LET n == Min({Len(Secret), Len(p) - b}) IN
            n > 0 /\ SubSeq(p, b + 1, b + n) = SubSeq(Secret, 1, n)
        cuts == {b \in 0 .. emit - 1 : b + Len(Secret) > emit /\ Begins(b)}
    IN IF cuts = {} THEN emit ELSE Min(cuts)

sinkEmit(k, n) ==
    LET text == redactDiagnosticBytes(SubSeq(k.pending, 1, n))
        room == MaxLog - Len(k.output)
        full == Len(text) > room
    IN [k EXCEPT
          !.pending = SubSeq(@, n + 1, Len(@)),
          !.truncated = @ \/ full,
          !.output = IF k.truncated THEN @
                     ELSE IF full
                     THEN SubSeq(@ \o text, 1, MaxLog - Len(Marker)) \o Marker
                     ELSE @ \o text]

sinkWrite(k, d) ==
    LET p == [k EXCEPT !.pending = @ \o d]
        emit == IF Len(p.pending) > Held
                THEN safeDiagnosticEmit(p.pending, Len(p.pending) - Held) ELSE 0
    IN IF ~k.on \/ k.truncated THEN k
       ELSE IF emit > 0 THEN sinkEmit(p, emit) ELSE p

----------------------------------------------------------------------------
(* One task.                                                                *)

(* pipelineLogWriters: without a durable file, or without a console, the   *)
(* run goes on degraded.                                                   *)
pipelineLogWriters ==
    /\ task.at = "start"
    /\ \E durable, console \in BOOLEAN :
          /\ sink' = [QuietSink EXCEPT !.on = durable]
          /\ file' = IF durable THEN [NoLog EXCEPT !.data = <<>>] ELSE file
          /\ live' = [s \in Streams |-> [NoStreams[s] EXCEPT !.on = console]]
    /\ child' = [s \in Streams |-> <<>>] /\ joint' = <<>>
    /\ task' = [task EXCEPT !.at = "running"]
    /\ UNCHANGED <<mode, stored, diag, shown>>

(* livePipeline.write                                                      *)
ChildWrites(s, d) ==
    /\ task.at = "running" /\ Len(joint) < MaxWrites \div task.n
    /\ \E delivered \in BOOLEAN : live' = [live EXCEPT ![s] = liveWrite(s, d, FALSE, delivered)]
    /\ sink' = sinkWrite(sink, d)
    /\ child' = [child EXCEPT ![s] = @ \o d] /\ joint' = joint \o d
    /\ UNCHANGED <<mode, task, file, stored, diag, shown>>

(* livePipeline.Close: only now does the sink write its file.              *)
CloseLog ==
    /\ task.at = "running"
    /\ live' = [s \in Streams |-> liveWrite(s, <<>>, TRUE, TRUE)]
    /\ \E flushed \in BOOLEAN :
          file' = IF ~sink.on THEN file
                  ELSE IF flushed
                  THEN [data |-> sinkEmit(sink, Len(sink.pending)).output,
                        text |-> redactDiagnosticBytes(joint), whole |-> TRUE,
                        recorded |-> FALSE]
                  ELSE file
    /\ sink' = QuietSink
    /\ task' = [task EXCEPT !.at = "closed"]
    /\ UNCHANGED <<mode, child, joint, stored, diag, shown>>

----------------------------------------------------------------------------
(* The failure record.                                                      *)

(* The lines that decode as a worker_failure, whoever wrote them.           *)
Records(d) == {i \in 1 .. Len(d) : d[i] = "F" /\ (i = 1 \/ d[i - 1] = "n")
                                               /\ (i = Len(d) \/ d[i + 1] = "n")}

hasWorkerFailureEvent(d) == Records(d) # {}

EndsLine(d) == d = <<>> \/ Last(d) = "n"
Ended(d) == IF EndsLine(d) THEN d ELSE d \o <<"n">>

(* Mutant: the failure record is appended without a newline.               *)
ComposeUnseparated(c, overflow) ==
    IF ~overflow /\ Len(c) + Len(FailureRecord) <= MaxLog
    THEN c \o FailureRecord
    ELSE SubSeq(c, 1, Min({Len(c), MaxLog - Len(FailureRecord) - Len(Marker)}))
         \o FailureRecord \o Marker

composeWorkerFailurePipelineLog(c, overflow) ==
    LET available == MaxLog - Len(FailureRecord) - Len(Marker)
        kept == SubSeq(c, 1, Min({Len(c), available}))
        line == IF EndsLine(kept) THEN kept
                ELSE (IF Len(kept) = available THEN Front(kept) ELSE kept) \o <<"n">>
    IN IF ~overflow /\ Len(Ended(c)) + Len(FailureRecord) <= MaxLog
       THEN Ended(c) \o FailureRecord
       ELSE line \o FailureRecord \o Marker

(* Nothing is added to a log that has a record.  Markers at the end move   *)
(* behind the new one, the sink's and those the child may have printed.    *)
workerFailurePipelineLogData(log) ==
    LET old == IF log = NoLog THEN StartRecord ELSE log.data
        markers == Max({k \in 0 .. Len(old) \div Len(Marker) :
                          IsSuffix(FlattenSeq([j \in 1 .. k |-> Marker]), old)})
        c == SubSeq(old, 1, Len(old) - markers * Len(Marker))
    IN IF hasWorkerFailureEvent(old) THEN [log EXCEPT !.recorded = TRUE]
       ELSE [log EXCEPT !.data = composeWorkerFailurePipelineLog(c, markers > 0),
                        !.recorded = TRUE]

(* boundedPipelineLogData and sanitizedPipelineLogData: copies outside the  *)
(* workspace are cut to the limit.                                         *)
boundedPipelineLogData(d) ==
    IF Len(d) <= MaxLog THEN d ELSE SubSeq(d, 1, MaxLog - Len(Marker)) \o Marker

sanitizedPipelineLogData(d) ==
    SubSeq(redactDiagnosticBytes(d), 1, Min({MaxLog, Len(redactDiagnosticBytes(d))}))

(* writeCloudPipelineLog: an absent file becomes an empty object.          *)
CloudCopy(log) ==
    IF log = NoLog THEN [NoLog EXCEPT !.data = <<>>]
    ELSE [log EXCEPT !.data = boundedPipelineLogData(@)]

(* The diagnostic is create-only; the same bytes again are accepted.       *)
marshalFailureDiagnosticMeta(reason) ==
    [reason |-> reason,
     fields |-> {"version", "status", "stage", "error_class", "execution", "message"}]

writeCloudFailureDiagnosticWithContext(reason) ==
    diag' \in {diag, IF diag = NoDiagnostic THEN marshalFailureDiagnosticMeta(reason) ELSE diag}

(* recordCloudFailurePipelineLog while the workspace exists; either write  *)
(* may fail, and the diagnostic is tried in any case.                      *)
recordCloudFailure(reason) ==
    /\ mode = "cloud"
    /\ \/ file' = workerFailurePipelineLogData(file) /\ stored' \in {stored, CloudCopy(file')}
       \/ UNCHANGED <<file, stored>>
    /\ writeCloudFailureDiagnosticWithContext(reason)

(* ... and when it does not: the stored object itself is extended.         *)
recordCloudFailureWithoutWorkspace(reason) ==
    /\ mode = "cloud"
    /\ stored' \in {stored, workerFailurePipelineLogData(stored)}
    /\ UNCHANGED file
    /\ writeCloudFailureDiagnosticWithContext(reason)

(* recordLocalWorkerFailureLog before publication: a record the vault      *)
(* already has is not replaced.                                            *)
recordLocalFailure ==
    /\ mode = "local"
    /\ file' = workerFailurePipelineLogData(file)
    /\ stored' \in {stored, IF stored # NoLog /\ hasWorkerFailureEvent(stored.data) THEN [stored EXCEPT !.recorded = TRUE]
                            ELSE [file' EXCEPT !.data = sanitizedPipelineLogData(@)]}
    /\ UNCHANGED diag

(* ... and after it: the vault's log is extended.                          *)
recordLocalFailureInVault ==
    /\ mode = "local"
    /\ stored' \in {stored, workerFailurePipelineLogData(stored)}
    /\ UNCHANGED <<file, diag>>

(* The process and its streams are gone.                                   *)
ProcessEnds ==
    /\ child' = [s \in Streams |-> <<>>] /\ joint' = <<>>
    /\ live' = NoStreams
    /\ sink' = QuietSink
    /\ UNCHANGED <<mode, shown>>

(* A failure before the child runs, of the child, or up to publication.    *)
FailTask ==
    /\ task.at \in {"start", "closed"}
    /\ \/ recordCloudFailure("synto_run") \/ recordLocalFailure
       \/ task.at = "start" /\ \/ recordCloudFailureWithoutWorkspace("synto_run")
                               \/ recordLocalFailureInVault
    /\ task' = [task EXCEPT !.at = "failed"]
    /\ ProcessEnds

(* writeCloudReceipts, or the log among the published workspace outputs.   *)
StoreLog ==
    /\ task.at = "closed"
    /\ \/ mode = "cloud" /\ stored' \in {stored, CloudCopy(file)}
       \/ mode = "local" /\ stored' = IF file = NoLog THEN stored ELSE file
    /\ task' = [task EXCEPT !.at = "published"]
    /\ ProcessEnds /\ UNCHANGED <<file, diag>>

(* Receipts or the lease release fail after publication.                   *)
FailAfterPublish ==
    /\ task.at = "published"
    /\ \/ recordCloudFailure("receipt_recording")
       \/ recordCloudFailureWithoutWorkspace("receipt_recording")
       \/ recordLocalFailureInVault
    /\ task' = [task EXCEPT !.at = "failed"]
    /\ ProcessEnds

(* The task's process dies.                                                *)
KillTask ==
    /\ task.at \in {"running", "closed", "published"}
    /\ task' = [task EXCEPT !.at = "failed"]
    /\ ProcessEnds /\ UNCHANGED <<file, stored, diag>>

(* A task of the same execution starts in a fresh workspace; a local one   *)
(* copies the vault's cache directory into it.                             *)
RetryTask ==
    /\ task.at = "failed" /\ task.n < MaxTasks
    /\ task' = [n |-> task.n + 1, at |-> "start"]
    /\ file' = IF mode = "local" THEN stored ELSE NoLog
    /\ ProcessEnds /\ UNCHANGED <<stored, diag>>

----------------------------------------------------------------------------
(* The BFF: the status of an execution that has ended as failed, with its  *)
(* diagnostic when that decodes without unknown fields.                    *)
DiagnosticFields ==
    {"version", "status", "stage", "error_class", "detail_code", "child_command", "exit_code"}

readPipelineFailureDiagnostic ==
    IF diag # NoDiagnostic /\ diag.fields \subseteq DiagnosticFields
    THEN diag.reason ELSE "none"

PipelineStatus ==
    /\ task = [n |-> MaxTasks, at |-> "failed"]
    /\ shown' = readPipelineFailureDiagnostic
    /\ UNCHANGED <<mode, task, child, joint, live, sink, file, stored, diag>>

LogNext ==
    \/ pipelineLogWriters
    \/ \E s \in Streams, d \in Chunks : ChildWrites(s, d)
    \/ CloseLog
    \/ FailTask \/ StoreLog \/ FailAfterPublish
    \/ KillTask \/ RetryTask
    \/ PipelineStatus

----------------------------------------------------------------------------
(* What the console's reader gets back from the frames.                    *)
Decoded(d) ==
    LET From[i \in 1 .. Len(d) + 3] ==
        IF i > Len(d) THEN <<>>
        ELSE IF TaskAt(d, i, <<"E", "E">>) THEN <<"E">> \o From[i + 2]
        ELSE IF TaskAt(d, i, Continuation) THEN From[i + 3]
        ELSE <<d[i]>> \o From[i + 1]
    IN From[1]

Leaks(d) == \E i \in 1 .. Len(d) : SecretAt(d, i)

(* However the child splits its output over writes, a console that has     *)
(* taken everything so far decodes to exactly the one-shot redaction of    *)
(* what the stream wrote, less the bytes still held back, and one that has *)
(* failed to a beginning of it; the key is never in it.                    *)
LiveStreamFaithful ==
    \A s \in Streams :
        LET got == Decoded(live[s].out)
            all == redactDiagnosticBytes(child[s])
        IN /\ ~Leaks(got)
           /\ IsPrefix(got, all)
           /\ live[s].on => all = got \o redactDiagnosticBytes(live[s].pending)

(* A stored log, through truncation, failure records, retries and failed   *)
(* writes.  It is within the limit the BFF accepts and holds no key.  Once *)
(* the worker has recorded a failure in it, it has a failure record, on a  *)
(* line of its own; before, none that the child did not print; and the     *)
(* worker adds none to one that is there.  Unless the child printed the    *)
(* truncation marker, the log holds everything it wrote or ends in the     *)
(* marker, which is there only when not all of it would have fitted.       *)
StoredLogHonest ==
    stored # NoLog =>
        LET d == stored.data
            printed == Records(stored.text)
        IN
        /\ Len(d) <= MaxLog /\ ~Leaks(d)
        /\ stored.recorded => Records(d) # {}
        /\ ~stored.recorded => Cardinality(Records(d)) <= Cardinality(printed)
        /\ Cardinality(Records(d)) <= Max({1, Cardinality(printed)})
        /\ stored.whole /\ ~Contains(stored.text, "M") =>
             IF IsSuffix(Marker, d)
             THEN Len(stored.text) + 1 + Len(FailureRecord) > MaxLog
             ELSE IsPrefix(stored.text, d)
==============================================================================
