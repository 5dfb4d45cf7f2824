------------------------------- MODULE LspServer -------------------------------
(***************************************************************************)
(* The language server of aderyn (aderyn/src/lsp.rs) and the run of the    *)
(* driver it repeats (aderyn_driver: fetch_report_for_lsp, make_context,   *)
(* compile_project, detect_issues, LspReport::from).                       *)
(*                                                                         *)
(* Four actors run concurrently: the thread of the file-system watcher,    *)
(* which blocks on a bounded channel; the reactor task, which analyses the *)
(* project and publishes; the handlers of the editor's requests, which     *)
(* share the client mutex with the reactor; and the world outside, which   *)
(* edits files and reads the server's output.                              *)
(***************************************************************************)
EXTENDS Naturals, Sequences, FiniteSets

CONSTANTS
  Files,          \* the Solidity files under the watched root
  Findings,       \* the non-empty lists of diagnostics a file can have
  NoDiags,        \* the empty list of diagnostics
  NoFile,         \* the file of a message that is not a publication
  CompiledWith,   \* for each file, the files of the compiler run it is part of
  Contents,       \* what an edit can make of a file (see FileStates)
  InitialContents,\* what a file can be when the server starts
  ChannelCap,     \* capacity of the channel of file change events (10 in the code)
  OutCap,         \* messages the transport buffers before a sender waits
  MaxEdits,       \* bound: edits of the project in a behaviour
  MaxNoise        \* bound: events the watcher reports that no edit caused

(* A file is either one of Findings (it compiles and has these findings),  *)
(* or: clean; broken (a compiler error); unresolvable (no compiler input   *)
(* can be derived); undecodable (its AST cannot be loaded); or gone.       *)
FileStates == Findings \cup {"clean", "broken", "unresolvable", "undecodable", "gone"}
Diags == Findings \cup {NoDiags}

ASSUME LspAssumption ==
  /\ NoDiags \notin Findings
  /\ NoFile \notin Files
  /\ CompiledWith \in [Files -> SUBSET Files]
  /\ \A f \in Files : f \in CompiledWith[f]
  /\ Contents \subseteq FileStates /\ InitialContents \subseteq FileStates
  /\ ChannelCap \in Nat \ {0}
  /\ OutCap \in Nat \ {0}
  /\ MaxEdits \in Nat
  /\ MaxNoise \in Nat

VARIABLES
  disk,             \* the state of every file
  config,           \* aderyn.toml: "valid" or "invalid"
  edits, noise,     \* how many edits and noise events there were (bounded)
  pending,          \* what the operating system has for the watcher: "ok" or "err" each
  watcher,          \* the watcher thread: "up" or "dead"
  fileChangeEvents, \* the channel, a sequence of "ok" and "err"
  pc,               \* where the reactor task is
  unread,           \* files the current run has still to read
  snap,             \* what the current run has read
  report,           \* LspReport.diagnostics of the last run that had one
  todo,             \* files the reactor has still to publish or to clear
  seenFileUris,     \* files of all the reports published so far
  clientLock,       \* holder of the mutex around the client
  handler,          \* state of every handler of LanguageServer
  lsp,              \* tower-lsp's state of the session
  out,              \* messages on their way to the editor
  shown,            \* what the editor shows for every file
  sent,             \* history: the last diagnostics sent for every file
  attached          \* history: could the last run to publish reach the editor

world == <<disk, config, edits, noise>>
watching == <<pending, watcher, fileChangeEvents>>
run == <<unread, snap, report>>
publishing == <<todo, seenFileUris, attached>>
session == <<handler, lsp>>
wire == <<out, shown, sent>>
vars == <<disk, config, edits, noise, pending, watcher, fileChangeEvents, pc, unread, snap,
          report, todo, seenFileUris, clientLock, handler, lsp, out, shown, sent, attached>>

Handlers == {"initialize", "initialized", "shutdown"}
NoReport == [f \in Files |-> NoDiags]
NothingRead == [f \in Files |-> "gone"]
LogMessage == [file |-> NoFile, diags |-> NoDiags]
Publication(f, d) == [file |-> f, diags |-> d]
Messages == [file : Files \cup {NoFile}, diags : Diags]

(* tower-lsp (external) drops publish_diagnostics silently unless the      *)
(* session is initialized or being shut down.                              *)
CanPublish == lsp \in {"initialized", "shutdown"}
Running == lsp # "exited"

Init ==
  /\ disk \in [Files -> InitialContents] /\ config = "valid"
  /\ edits = 0 /\ noise = 0
  /\ pending = <<>> /\ watcher = "up" /\ fileChangeEvents = <<>>
  /\ pc = "begin" /\ unread = {} /\ snap = NothingRead
  /\ report = NoReport /\ todo = {} /\ seenFileUris = {} /\ attached = FALSE
  /\ clientLock = "none" /\ handler = [h \in Handlers |-> "idle"]
  /\ lsp = "uninitialized"
  /\ out = <<>> /\ shown = NoReport /\ sent = NoReport

--------------------------------------------------------------------------------
(* The world outside: files under the root, and the watcher's own events.  *)

EditFile(f, c) ==
  /\ edits < MaxEdits /\ disk[f] # c
  /\ disk' = [disk EXCEPT ![f] = c]
  /\ edits' = edits + 1 /\ pending' = Append(pending, "ok")
  /\ UNCHANGED <<config, noise, watcher, fileChangeEvents, pc, run, publishing, clientLock,
                 session, wire>>

EditConfig ==
  /\ edits < MaxEdits
  /\ config' = IF config = "valid" THEN "invalid" ELSE "valid"
  /\ edits' = edits + 1 /\ pending' = Append(pending, "ok")
  /\ UNCHANGED <<disk, noise, watcher, fileChangeEvents, pc, run, publishing, clientLock,
                 session, wire>>

(* An event that no edit caused: an access, another kind of file, an error. *)
Noise(result) ==
  /\ noise < MaxNoise
  /\ noise' = noise + 1 /\ pending' = Append(pending, result)
  /\ UNCHANGED <<disk, config, edits, watcher, fileChangeEvents, pc, run, publishing,
                 clientLock, session, wire>>

--------------------------------------------------------------------------------
(* The watcher's callback: blocking_send, then expect.                     *)

ReceiverDropped == pc = "dead"

(* Mutant: an unbounded channel. *)
NotifyReactorUnbounded ==
  /\ watcher = "up" /\ pending # <<>> /\ ~ReceiverDropped
  /\ fileChangeEvents' = Append(fileChangeEvents, Head(pending))
  /\ pending' = Tail(pending)
  /\ UNCHANGED <<world, watcher, pc, run, publishing, clientLock, session, wire>>

(* blocking_send waits for room in the channel. *)
NotifyReactor ==
  /\ watcher = "up" /\ pending # <<>> /\ ~ReceiverDropped
  /\ Len(fileChangeEvents) < ChannelCap
  /\ fileChangeEvents' = Append(fileChangeEvents, Head(pending))
  /\ pending' = Tail(pending)
  /\ UNCHANGED <<world, watcher, pc, run, publishing, clientLock, session, wire>>

(* The send fails once the receiver is gone, and expect panics. *)
WatcherPanics ==
  /\ watcher = "up" /\ pending # <<>> /\ ReceiverDropped
  /\ watcher' = "dead"
  /\ UNCHANGED <<world, pending, fileChangeEvents, pc, run, publishing, clientLock, session, wire>>

--------------------------------------------------------------------------------
(* One run of the driver: fetch_report_for_lsp.                            *)

Reactor(from, to) == pc = from /\ pc' = to

(* obtain_config_values: an aderyn.toml that does not parse ends the run   *)
(* with no report; otherwise the sources are read, one file after another. *)
BeginRun ==
  /\ IF config = "invalid"
     THEN Reactor("begin", "recv") /\ UNCHANGED unread
     ELSE Reactor("begin", "compile") /\ unread' = Files
  /\ snap' = NothingRead
  /\ UNCHANGED <<world, watching, report, publishing, clientLock, session, wire>>

ReadSource(f) ==
  /\ Reactor("compile", "compile") /\ f \in unread
  /\ snap' = [snap EXCEPT ![f] = disk[f]]
  /\ unread' = unread \ {f}
  /\ UNCHANGED <<world, watching, report, publishing, clientLock, session, wire>>

AllRead == pc = "compile" /\ unread = {}
Underivable == \E f \in Files : snap[f] = "unresolvable"

(* A compiler error drops the whole context the file is compiled in. *)
ContextCompiles(s, f) == \A g \in CompiledWith[f] : s[g] # "broken"
Undecodable == \E f \in Files : snap[f] = "undecodable" /\ ContextCompiles(snap, f)

(* derive_ast_and_evm_info fails: make_context is Err, there is no report. *)
DeriveFails ==
  /\ AllRead /\ Underivable /\ pc' = "recv"
  /\ UNCHANGED <<world, watching, run, publishing, clientLock, session, wire>>

(* absorb_ast_content_into_context: std::process::exit(1). *)
LoadExits ==
  /\ AllRead /\ ~Underivable /\ Undecodable
  /\ lsp' = "exited"
  /\ UNCHANGED <<world, watching, pc, run, publishing, clientLock, handler, wire>>

Load ==
  /\ AllRead /\ ~Underivable /\ ~Undecodable /\ pc' = "detect"
  /\ UNCHANGED <<world, watching, run, publishing, clientLock, session, wire>>

(* What the detectors find in files read as s, file by file. *)
ReportOf(s) ==
  [f \in Files |-> IF s[f] \in Findings /\ ContextCompiles(s, f) THEN s[f] ELSE NoDiags]

(* detect_issues canonicalizes the path of every file with an instance and *)
(* unwraps: a file deleted since it was read panics the reactor task.      *)
DetectPanics ==
  /\ Reactor("detect", "dead")
  /\ \E f \in Files : ReportOf(snap)[f] # NoDiags /\ disk[f] = "gone"
  /\ UNCHANGED <<world, watching, run, publishing, clientLock, session, wire>>

DetectIssues ==
  /\ Reactor("detect", "convert")
  /\ \A f \in Files : ReportOf(snap)[f] # NoDiags => disk[f] # "gone"
  /\ UNCHANGED <<world, watching, run, publishing, clientLock, session, wire>>

(* LspReport::from canonicalizes again and skips a file that is gone now. *)
MakeReport ==
  /\ Reactor("convert", "lock")
  /\ report' = [f \in Files |-> IF disk[f] = "gone" THEN NoDiags ELSE ReportOf(snap)[f]]
  /\ snap' = NothingRead
  /\ UNCHANGED <<world, watching, unread, publishing, clientLock, session, wire>>

--------------------------------------------------------------------------------
(* The reactor task: generate_diagnostics_and_publish, then wait.          *)

Reported == {f \in Files : report[f] # NoDiags}

(* Wait for an event; an error of the watcher does not start a run. *)
ReceiveEvent ==
  /\ pc = "recv" /\ fileChangeEvents # <<>>
  /\ pc' = IF Head(fileChangeEvents) = "ok" THEN "begin" ELSE "recv"
  /\ fileChangeEvents' = Tail(fileChangeEvents)
  /\ UNCHANGED <<world, pending, watcher, run, publishing, clientLock, session, wire>>

(* Mutant: the reactor publishes through a client of its own, unguarded. *)
LockClientUnguarded ==
  /\ Reactor("lock", "publish")
  /\ clientLock' = "reactor"
  /\ todo' = Reported /\ attached' = CanPublish
  /\ UNCHANGED <<world, watching, run, seenFileUris, session, wire>>

LockClient ==
  /\ Reactor("lock", "publish") /\ clientLock = "none"
  /\ clientLock' = "reactor"
  /\ todo' = Reported /\ attached' = CanPublish
  /\ UNCHANGED <<world, watching, run, seenFileUris, session, wire>>

(* client.publish_diagnostics(f, d): waits for room, or is dropped.        *)
PublishDiagnostics(f, d) ==
  \/ /\ CanPublish /\ Len(out) < OutCap
     /\ out' = Append(out, Publication(f, d))
     /\ sent' = [sent EXCEPT ![f] = d]
     /\ UNCHANGED shown
  \/ ~CanPublish /\ UNCHANGED wire

PublishFile(f) ==
  /\ Reactor("publish", "publish") /\ f \in todo
  /\ PublishDiagnostics(f, report[f])
  /\ todo' = todo \ {f}
  /\ UNCHANGED <<world, watching, run, seenFileUris, attached, clientLock, session>>

(* Mutant: the test of current_run_file_uris the wrong way round. *)
BeginClearingInverted ==
  /\ Reactor("publish", "clear") /\ todo = {}
  /\ todo' = seenFileUris \cap Reported
  /\ UNCHANGED <<world, watching, run, seenFileUris, attached, clientLock, session, wire>>

BeginClearing ==
  /\ Reactor("publish", "clear") /\ todo = {}
  /\ todo' = seenFileUris \ Reported
  /\ UNCHANGED <<world, watching, run, seenFileUris, attached, clientLock, session, wire>>

ClearFile(f) ==
  /\ Reactor("clear", "clear") /\ f \in todo
  /\ PublishDiagnostics(f, NoDiags)
  /\ todo' = todo \ {f}
  /\ UNCHANGED <<world, watching, run, seenFileUris, attached, clientLock, session>>

(* Mutant: the files of the current run are not remembered. *)
FinishRunForgets ==
  /\ Reactor("clear", "recv") /\ todo = {}
  /\ clientLock' = "none"
  /\ UNCHANGED <<world, watching, run, todo, seenFileUris, attached, session, wire>>

(* Mutant: the guard of the client outlives the run. *)
FinishRunKeepsClient ==
  /\ Reactor("clear", "recv") /\ todo = {}
  /\ seenFileUris' = seenFileUris \cup Reported
  /\ UNCHANGED <<world, watching, run, todo, attached, clientLock, session, wire>>

(* Mutant: events that arrived during the run are taken for its own. *)
FinishRunDropsEvents ==
  /\ Reactor("clear", "recv") /\ todo = {}
  /\ seenFileUris' = seenFileUris \cup Reported
  /\ clientLock' = "none" /\ fileChangeEvents' = <<>>
  /\ UNCHANGED <<world, pending, watcher, run, todo, attached, session, wire>>

FinishRun ==
  /\ Reactor("clear", "recv") /\ todo = {}
  /\ seenFileUris' = seenFileUris \cup Reported
  /\ clientLock' = "none"
  /\ UNCHANGED <<world, watching, run, todo, attached, session, wire>>

ReactorStep ==
  \/ BeginRun \/ DeriveFails \/ LoadExits \/ Load
  \/ DetectPanics \/ DetectIssues \/ MakeReport
  \/ ReceiveEvent \/ LockClient \/ BeginClearing \/ FinishRun
  \/ \E f \in Files : ReadSource(f) \/ PublishFile(f) \/ ClearFile(f)

--------------------------------------------------------------------------------
(* The handlers of LanguageServer, and tower-lsp's session around them     *)
(* (external): the session is initialized when the response of initialize  *)
(* is made, which is after the handler let go of the client.               *)

HandlerStep(h, from, to) == handler[h] = from /\ handler' = [handler EXCEPT ![h] = to]

CallHandler(h) ==
  /\ HandlerStep(h, "idle", "locking")
  /\ lsp = (IF h = "initialize" THEN "uninitialized" ELSE "initialized")
  /\ lsp' = CASE h = "initialize" -> "initializing"
              [] h = "shutdown" -> "shutdown"
              [] OTHER -> lsp
  /\ UNCHANGED <<world, watching, pc, run, publishing, clientLock, wire>>

HandlerLocks(h) ==
  /\ HandlerStep(h, "locking", "logging") /\ clientLock = "none"
  /\ clientLock' = h
  /\ UNCHANGED <<world, watching, pc, run, publishing, lsp, wire>>

(* log_message is sent in every state of the session; then the guard drops. *)
HandlerLogs(h) ==
  /\ HandlerStep(h, "logging", "returned") /\ Len(out) < OutCap
  /\ out' = Append(out, LogMessage)
  /\ clientLock' = "none"
  /\ UNCHANGED <<world, watching, pc, run, publishing, lsp, shown, sent>>

Respond(h) ==
  /\ HandlerStep(h, "returned", "done")
  /\ lsp' = IF h = "initialize" THEN "initialized" ELSE lsp
  /\ UNCHANGED <<world, watching, pc, run, publishing, clientLock, wire>>

(* The editor's exit notification, or the end of its input. *)
Exit ==
  /\ lsp' = "exited"
  /\ UNCHANGED <<world, watching, pc, run, publishing, clientLock, handler, wire>>

EditorReads ==
  /\ out # <<>>
  /\ out' = Tail(out)
  /\ shown' = IF Head(out).file \in Files
              THEN [shown EXCEPT ![Head(out).file] = Head(out).diags]
              ELSE shown
  /\ UNCHANGED <<world, watching, pc, run, publishing, clientLock, session, sent>>

--------------------------------------------------------------------------------
Environment ==
  \/ \E f \in Files, c \in Contents : EditFile(f, c)
  \/ EditConfig
  \/ \E result \in {"ok", "err"} : Noise(result)
  \/ \E h \in Handlers : CallHandler(h)
  \/ Exit

WatcherStep == NotifyReactor \/ WatcherPanics

Next ==
  /\ Running
  /\ \/ Environment \/ WatcherStep \/ ReactorStep \/ EditorReads
     \/ \E h \in Handlers : HandlerLocks(h) \/ HandlerLogs(h) \/ Respond(h)

Spec == Init /\ [][Next]_vars

(* Every thread and task runs; a tokio mutex serves its waiters in order,  *)
(* so a task that waits for it gets it; the editor reads what it is sent.  *)
Fairness ==
  /\ WF_vars(Running /\ WatcherStep)
  /\ WF_vars(Running /\ ReactorStep)
  /\ SF_vars(Running /\ LockClient)
  /\ WF_vars(Running /\ EditorReads)
  /\ \A h \in Handlers :
       /\ SF_vars(Running /\ HandlerLocks(h))
       /\ WF_vars(Running /\ (HandlerLogs(h) \/ Respond(h)))

FairSpec == Spec /\ Fairness

--------------------------------------------------------------------------------
(* Every variable keeps to its type; the channel and the transport never   *)
(* hold more than their capacity.                                          *)
TypeOK ==
  /\ disk \in [Files -> FileStates] /\ config \in {"valid", "invalid"}
  /\ edits \in Nat /\ noise \in Nat
  /\ pending \in Seq({"ok", "err"}) /\ watcher \in {"up", "dead"}
  /\ fileChangeEvents \in Seq({"ok", "err"}) /\ Len(fileChangeEvents) <= ChannelCap
  /\ pc \in {"begin", "compile", "detect", "convert", "lock", "publish", "clear", "recv", "dead"}
  /\ unread \subseteq Files /\ snap \in [Files -> FileStates]
  /\ report \in [Files -> Diags]
  /\ todo \subseteq Files /\ seenFileUris \subseteq Files /\ attached \in BOOLEAN
  /\ clientLock \in Handlers \cup {"none", "reactor"}
  /\ handler \in [Handlers -> {"idle", "locking", "logging", "returned", "done"}]
  /\ lsp \in {"uninitialized", "initializing", "initialized", "shutdown", "exited"}
  /\ out \in Seq(Messages) /\ Len(out) <= OutCap
  /\ shown \in [Files -> Diags] /\ sent \in [Files -> Diags]

Publishing == pc \in {"publish", "clear"}

(* Nothing an editor was ever sent can be forgotten: a file whose last     *)
(* diagnostics were not empty is in seen_file_uris, or is part of the      *)
(* report now being published, whatever runs failed, were dropped before   *)
(* the session was initialized or found other files in between.            *)
SentFilesAreTracked ==
  \A f \in Files : sent[f] # NoDiags => f \in seenFileUris \/ (Publishing /\ f \in Reported)

(* Between two runs, if the last run to publish started in an initialized  *)
(* session, the editor has all of its report.                              *)
Settled == attached /\ pc \notin {"lock", "publish", "clear"}

(* The client is held for the whole of a run's publications: no handler's  *)
(* message comes between two of them, and none logs without holding it.    *)
ClientIsExclusive ==
  /\ Publishing => clientLock = "reactor"
  /\ \A h \in Handlers : handler[h] = "logging" => clientLock = h

(* The publishing side implements DiagnosticsMirror: a report replaces the *)
(* last one as a whole, files move to it one by one, and a run that ended  *)
(* in an initialized session leaves the editor with all of it.             *)
Mirror == INSTANCE DiagnosticsMirror WITH view <- sent, settled <- Settled
ImplementsMirror == Mirror!Spec

(* Once a run publishes, the reactor lets go of the client: no handler     *)
(* waits for it for ever, whatever is being published meanwhile.           *)
HandlersComplete ==
  \A h \in Handlers : handler[h] = "locking" ~> handler[h] = "done" \/ ~Running

(* When the edits stop, the editor ends up showing what the detectors find *)
(* in the files as they are, however the edits fell between the reads of a *)
(* run; except where the code gives up: no configuration, no compiler      *)
(* input, a reactor that panicked, or a run published too early.           *)
Derivable == config = "valid" /\ \A f \in Files : disk[f] # "unresolvable"
EditorCatchesUp ==
  <>[](Running /\ ~ReceiverDropped /\ Derivable /\ attached => shown = ReportOf(disk))

(* "For the first time, run it automatically" (lsp.rs:198): the editor of  *)
(* an initialized session ends up with the diagnostics of the project,     *)
(* with no edit needed. The code does not ensure it.                       *)
FirstRunReachesEditor ==
  <>[](lsp = "initialized" /\ Derivable => shown = ReportOf(disk))

(* "React to file changes by regenerating diagnostics" (lsp.rs:128): every *)
(* file change event is taken. The code does not ensure it.                *)
FileChangesAreTaken == pending # <<>> ~> pending = <<>> \/ ~Running
================================================================================
