---------------------------- MODULE LspServerProofs ----------------------------
(***************************************************************************)
(* Theorems about the language server, for every set of files, every       *)
(* capacity of the channel and the transport and every number of edits.    *)
(***************************************************************************)
EXTENDS LspServer, TLAPS

(* How far the publication of a report has come. In the first loop only    *)
(* files of the report are left; in the second only files outside it.      *)
PublishingFiles ==
  pc = "publish" =>
    /\ todo \subseteq Reported
    /\ attached => \A f \in Reported \ todo : sent[f] = report[f]

ClearingFiles ==
  pc = "clear" =>
    /\ todo \cap Reported = {}
    /\ attached => \A f \in Files \ todo : sent[f] = report[f]

(* A run that started publishing in an initialized session goes on in one. *)
SessionStaysInitialized ==
  attached => lsp \in {"initialized", "shutdown", "exited"}

SettledView == Settled => sent = report

(* The inductive invariant: the bookkeeping of files, the lock, and how    *)
(* far the publication has come.                                           *)
PublishInv ==
  /\ SentFilesAreTracked
  /\ ClientIsExclusive
  /\ SessionStaysInitialized
  /\ PublishingFiles
  /\ ClearingFiles
  /\ SettledView

--------------------------------------------------------------------------------
LEMMA SeqFacts ==
  ASSUME NEW S, NEW s \in Seq(S), s # <<>>
  PROVE  /\ Head(s) \in S /\ Tail(s) \in Seq(S) /\ Len(Tail(s)) = Len(s) - 1
         /\ Len(s) \in Nat
  OBVIOUS

LEMMA AppendFacts ==
  ASSUME NEW S, NEW s \in Seq(S), NEW e \in S
  PROVE  /\ Append(s, e) \in Seq(S) /\ Len(Append(s, e)) = Len(s) + 1
         /\ Len(s) \in Nat
  OBVIOUS

LEMMA ReportOfType ==
  ASSUME NEW s \in [Files -> FileStates]
  PROVE  ReportOf(s) \in [Files -> Diags]
  BY DEF ReportOf, Diags

LEMMA InitTypeOK == Init => TypeOK
<1> SUFFICES ASSUME Init PROVE TypeOK
  OBVIOUS
<1>1. NoReport \in [Files -> Diags] /\ NothingRead \in [Files -> FileStates]
  BY DEF NoReport, NothingRead, Diags, FileStates
<1>2. disk \in [Files -> FileStates]
  BY LspAssumption DEF Init, FileStates
<1>3. <<>> \in Seq({"ok", "err"}) /\ <<>> \in Seq(Messages) /\ Len(<<>>) = 0
  OBVIOUS
<1>4. handler \in [Handlers -> {"idle", "locking", "logging", "returned", "done"}]
  BY DEF Init, Handlers
<1>5. Len(fileChangeEvents) <= ChannelCap /\ Len(out) <= OutCap
  BY <1>3, LspAssumption DEF Init
<1>6. /\ pending \in Seq({"ok", "err"}) /\ fileChangeEvents \in Seq({"ok", "err"})
      /\ out \in Seq(Messages)
  BY <1>3 DEF Init
<1>7. QED
  BY <1>1, <1>2, <1>4, <1>5, <1>6 DEF Init, TypeOK

LEMMA EnvironmentTypeOK == TypeOK /\ Environment => TypeOK'
<1> SUFFICES ASSUME TypeOK, Environment PROVE TypeOK'
  OBVIOUS
<1> USE DEF run, publishing, session, wire, world, watching
<1>1. ASSUME NEW f \in Files, NEW c \in Contents, EditFile(f, c) PROVE TypeOK'
  <2>1. c \in FileStates
    BY LspAssumption DEF FileStates
  <2>2. pending' \in Seq({"ok", "err"})
    BY <1>1, AppendFacts DEF EditFile, TypeOK
  <2>3. QED
    BY <1>1, <2>1, <2>2 DEF EditFile, TypeOK
<1>2. CASE EditConfig
  <2>1. pending' \in Seq({"ok", "err"})
    BY <1>2, AppendFacts DEF EditConfig, TypeOK
  <2>2. QED
    BY <1>2, <2>1 DEF EditConfig, TypeOK
<1>3. ASSUME NEW result \in {"ok", "err"}, Noise(result) PROVE TypeOK'
  <2>1. pending' \in Seq({"ok", "err"})
    BY <1>3, AppendFacts DEF Noise, TypeOK
  <2>2. QED
    BY <1>3, <2>1 DEF Noise, TypeOK
<1>4. ASSUME NEW h \in Handlers, CallHandler(h) PROVE TypeOK'
  BY <1>4 DEF CallHandler, HandlerStep, TypeOK
<1>5. CASE Exit
  BY <1>5 DEF Exit, TypeOK
<1>6. QED
  BY <1>1, <1>2, <1>3, <1>4, <1>5 DEF Environment

LEMMA WatcherTypeOK == TypeOK /\ WatcherStep => TypeOK'
<1> SUFFICES ASSUME TypeOK, WatcherStep PROVE TypeOK'
  OBVIOUS
<1> USE DEF run, publishing, session, wire, world, watching
<1>1. CASE NotifyReactor
  <2>1. /\ fileChangeEvents' \in Seq({"ok", "err"}) /\ pending' \in Seq({"ok", "err"})
        /\ Len(fileChangeEvents') <= ChannelCap
    <3>1. /\ pending \in Seq({"ok", "err"}) /\ pending # <<>>
          /\ fileChangeEvents \in Seq({"ok", "err"}) /\ Len(fileChangeEvents) < ChannelCap
          /\ fileChangeEvents' = Append(fileChangeEvents, Head(pending))
          /\ pending' = Tail(pending)
      BY <1>1 DEF NotifyReactor, TypeOK
    <3>2. Head(pending) \in {"ok", "err"} /\ Tail(pending) \in Seq({"ok", "err"})
      BY <3>1, SeqFacts
    <3>3. /\ Append(fileChangeEvents, Head(pending)) \in Seq({"ok", "err"})
          /\ Len(Append(fileChangeEvents, Head(pending))) = Len(fileChangeEvents) + 1
          /\ Len(fileChangeEvents) \in Nat
      BY <3>1, <3>2, AppendFacts
    <3>4. QED
      BY <3>1, <3>2, <3>3, LspAssumption
  <2>2. QED
    BY <1>1, <2>1 DEF NotifyReactor, TypeOK
<1>2. CASE WatcherPanics
  BY <1>2 DEF WatcherPanics, TypeOK
<1>3. QED
  BY <1>1, <1>2 DEF WatcherStep

LEMMA PublicationType ==
  ASSUME TypeOK, NEW f \in Files, NEW d \in Diags, PublishDiagnostics(f, d)
  PROVE  /\ out' \in Seq(Messages) /\ Len(out') <= OutCap
         /\ shown' \in [Files -> Diags] /\ sent' \in [Files -> Diags]
<1>1. CASE CanPublish /\ Len(out) < OutCap /\ out' = Append(out, Publication(f, d))
           /\ sent' = [sent EXCEPT ![f] = d] /\ UNCHANGED shown
  <2>1. Publication(f, d) \in Messages
    BY DEF Publication, Messages
  <2>2. /\ Append(out, Publication(f, d)) \in Seq(Messages)
        /\ Len(Append(out, Publication(f, d))) = Len(out) + 1
        /\ Len(out) \in Nat
    BY <2>1, AppendFacts DEF TypeOK
  <2>3. QED
    BY <1>1, <2>2, LspAssumption DEF TypeOK
<1>2. CASE UNCHANGED wire
  BY <1>2 DEF TypeOK, wire
<1>3. QED
  BY <1>1, <1>2 DEF PublishDiagnostics

LEMMA ReactorTypeOK == TypeOK /\ ReactorStep => TypeOK'
<1> SUFFICES ASSUME TypeOK, ReactorStep PROVE TypeOK'
  OBVIOUS
<1> USE DEF run, publishing, session, wire, world, watching, Reactor
<1>1. CASE BeginRun
  <2>1. NothingRead \in [Files -> FileStates]
    BY DEF NothingRead, FileStates
  <2>2. QED
    BY <1>1, <2>1 DEF BeginRun, TypeOK
<1>2. CASE DeriveFails \/ LoadExits \/ Load
  BY <1>2 DEF DeriveFails, LoadExits, Load, AllRead, TypeOK
<1>3. CASE DetectPanics \/ DetectIssues
  BY <1>3 DEF DetectPanics, DetectIssues, TypeOK
<1>4. CASE MakeReport
  <2>1. NothingRead \in [Files -> FileStates]
    BY DEF NothingRead, FileStates
  <2>2. report' \in [Files -> Diags]
    <3>1. ReportOf(snap) \in [Files -> Diags]
      BY ReportOfType DEF TypeOK
    <3>2. QED
      BY <1>4, <3>1 DEF MakeReport, Diags
  <2>3. QED
    BY <1>4, <2>1, <2>2 DEF MakeReport, TypeOK
<1>5. CASE ReceiveEvent
  <2>1. fileChangeEvents' \in Seq({"ok", "err"}) /\ Len(fileChangeEvents') <= ChannelCap
    <3>1. /\ Tail(fileChangeEvents) \in Seq({"ok", "err"})
          /\ Len(Tail(fileChangeEvents)) = Len(fileChangeEvents) - 1
          /\ Len(fileChangeEvents) \in Nat
      BY <1>5, SeqFacts DEF ReceiveEvent, TypeOK
    <3>2. QED
      BY <1>5, <3>1, LspAssumption DEF ReceiveEvent, TypeOK
  <2>2. QED
    BY <1>5, <2>1 DEF ReceiveEvent, TypeOK
<1>6. CASE LockClient
  BY <1>6 DEF LockClient, CanPublish, Reported, TypeOK
<1>7. CASE BeginClearing \/ FinishRun
  BY <1>7 DEF BeginClearing, FinishRun, Reported, TypeOK
<1>8. ASSUME NEW f \in Files, ReadSource(f) PROVE TypeOK'
  BY <1>8 DEF ReadSource, TypeOK
<1>9. ASSUME NEW f \in Files, PublishFile(f) PROVE TypeOK'
  <2>1. /\ out' \in Seq(Messages) /\ Len(out') <= OutCap
        /\ shown' \in [Files -> Diags] /\ sent' \in [Files -> Diags]
    BY <1>9, PublicationType DEF PublishFile, TypeOK
  <2>2. QED
    BY <1>9, <2>1 DEF PublishFile, TypeOK
<1>10. ASSUME NEW f \in Files, ClearFile(f) PROVE TypeOK'
  <2>1. /\ out' \in Seq(Messages) /\ Len(out') <= OutCap
        /\ shown' \in [Files -> Diags] /\ sent' \in [Files -> Diags]
    BY <1>10, PublicationType DEF ClearFile, Diags
  <2>2. QED
    BY <1>10, <2>1 DEF ClearFile, TypeOK
<1>11. QED
  BY <1>1, <1>2, <1>3, <1>4, <1>5, <1>6, <1>7, <1>8, <1>9, <1>10 DEF ReactorStep

LEMMA HandlersTypeOK ==
  ASSUME TypeOK, NEW h \in Handlers, HandlerLocks(h) \/ HandlerLogs(h) \/ Respond(h)
  PROVE  TypeOK'
<1> USE DEF run, publishing, session, wire, world, watching, HandlerStep
<1>1. CASE HandlerLocks(h)
  BY <1>1 DEF HandlerLocks, TypeOK
<1>2. CASE HandlerLogs(h)
  <2>1. LogMessage \in Messages
    BY DEF LogMessage, Messages, Diags
  <2>2. out' \in Seq(Messages) /\ Len(out') <= OutCap
    <3>1. /\ Append(out, LogMessage) \in Seq(Messages)
          /\ Len(Append(out, LogMessage)) = Len(out) + 1
          /\ Len(out) \in Nat
      BY <2>1, AppendFacts DEF TypeOK
    <3>2. QED
      BY <1>2, <3>1, LspAssumption DEF HandlerLogs
  <2>3. QED
    BY <1>2, <2>2 DEF HandlerLogs, TypeOK
<1>3. CASE Respond(h)
  BY <1>3 DEF Respond, TypeOK
<1>4. QED
  BY <1>1, <1>2, <1>3

LEMMA EditorTypeOK == TypeOK /\ EditorReads => TypeOK'
<1> SUFFICES ASSUME TypeOK, EditorReads PROVE TypeOK'
  OBVIOUS
<1>1. /\ Head(out) \in Messages /\ Tail(out) \in Seq(Messages)
      /\ Len(Tail(out)) = Len(out) - 1 /\ Len(out) \in Nat
  BY SeqFacts DEF EditorReads, TypeOK
<1>2. out' \in Seq(Messages) /\ Len(out') <= OutCap
  BY <1>1, LspAssumption DEF EditorReads, TypeOK
<1>3. shown' \in [Files -> Diags]
  BY <1>1 DEF EditorReads, TypeOK, Messages
<1>4. QED
  BY <1>2, <1>3
  DEF EditorReads, TypeOK, run, publishing, session, world, watching

(* Every variable keeps its type and neither the channel of file change    *)
(* events nor the transport ever holds more than its capacity.             *)
THEOREM TypeCorrect == Spec => []TypeOK
<1>1. TypeOK /\ [Next]_vars => TypeOK'
  <2>1. CASE Next
    BY <2>1, EnvironmentTypeOK, WatcherTypeOK, ReactorTypeOK, EditorTypeOK, HandlersTypeOK
    DEF Next
  <2>2. CASE UNCHANGED vars
    BY <2>2 DEF vars, TypeOK
  <2>3. QED
    BY <2>1, <2>2
<1>2. QED
  BY InitTypeOK, <1>1, PTL DEF Spec

--------------------------------------------------------------------------------
LEMMA InitPublishInv == Init => PublishInv
BY DEF Init, PublishInv, SentFilesAreTracked, ClientIsExclusive, SessionStaysInitialized,
       PublishingFiles, ClearingFiles, SettledView, Settled, Publishing, NoReport, Handlers

(* The steps that touch neither the report, nor its publication, nor the   *)
(* client: what the reactor does before it has a report, the watcher, the  *)
(* edits, the editor's reads and the end of the session.                   *)
Untouched ==
  /\ UNCHANGED <<report, todo, seenFileUris, attached, sent, clientLock>>
  /\ \A h \in Handlers : handler'[h] = "logging" => handler[h] = "logging"
  /\ (lsp' = lsp \/ lsp' \in {"initialized", "shutdown", "exited"} \/ lsp = "uninitialized")
  /\ (pc' = pc \/ {pc, pc'} \cap {"lock", "publish", "clear"} = {})

LEMMA UntouchedInv == PublishInv /\ Untouched => PublishInv'
<1> SUFFICES ASSUME PublishInv, Untouched PROVE PublishInv'
  OBVIOUS
<1>1. /\ pc' = "publish" <=> pc = "publish"
      /\ pc' = "clear" <=> pc = "clear"
      /\ Settled' <=> Settled
      /\ Reported' = Reported
  BY DEF Untouched, Settled, Reported
<1>2. SentFilesAreTracked'
  BY <1>1 DEF PublishInv, Untouched, SentFilesAreTracked, Publishing
<1>3. ClientIsExclusive'
  BY <1>1 DEF PublishInv, Untouched, ClientIsExclusive, Publishing
<1>4. SessionStaysInitialized'
  BY DEF PublishInv, Untouched, SessionStaysInitialized
<1>5. PublishingFiles' /\ ClearingFiles'
  BY <1>1 DEF PublishInv, Untouched, PublishingFiles, ClearingFiles
<1>6. SettledView'
  BY <1>1 DEF PublishInv, Untouched, SettledView
<1>7. QED
  BY <1>2, <1>3, <1>4, <1>5, <1>6 DEF PublishInv

LEMMA QuietSteps ==
  ASSUME TypeOK,
         Environment \/ WatcherStep \/ EditorReads \/ BeginRun \/ DeriveFails \/ LoadExits
         \/ Load \/ DetectPanics \/ DetectIssues \/ ReceiveEvent
         \/ (\E f \in Files : ReadSource(f)) \/ (\E h \in Handlers : Respond(h))
  PROVE  Untouched
<1> USE DEF run, publishing, session, wire, world, watching, Reactor, HandlerStep, TypeOK,
            Untouched
<1>1. CASE Environment
  BY <1>1 DEF Environment, EditFile, EditConfig, Noise, CallHandler, Exit
<1>2. CASE WatcherStep
  BY <1>2 DEF WatcherStep, NotifyReactor, WatcherPanics
<1>3. CASE EditorReads
  BY <1>3 DEF EditorReads
<1>4. CASE BeginRun \/ DetectPanics \/ DetectIssues
  BY <1>4 DEF BeginRun, DetectPanics, DetectIssues
<1>5. CASE DeriveFails \/ LoadExits \/ Load
  BY <1>5 DEF DeriveFails, LoadExits, Load, AllRead
<1>6. CASE ReceiveEvent
  BY <1>6 DEF ReceiveEvent
<1>7. CASE \E f \in Files : ReadSource(f)
  BY <1>7 DEF ReadSource
<1>8. CASE \E h \in Handlers : Respond(h)
  BY <1>8 DEF Respond
<1>9. QED
  BY <1>1, <1>2, <1>3, <1>4, <1>5, <1>6, <1>7, <1>8

(* A publication of file f with diagnostics d: it is sent if the session   *)
(* is initialized, else the message is dropped and nothing changes.        *)
LEMMA PublicationEffect ==
  ASSUME TypeOK, NEW f \in Files, NEW d \in Diags, PublishDiagnostics(f, d)
  PROVE  /\ \A g \in Files : sent'[g] = sent[g] \/ (g = f /\ sent'[g] = d)
         /\ CanPublish => sent'[f] = d
BY DEF PublishDiagnostics, wire, TypeOK

LEMMA MakeReportInv == TypeOK /\ PublishInv /\ MakeReport => PublishInv'
BY DEF TypeOK, PublishInv, SentFilesAreTracked, ClientIsExclusive, SessionStaysInitialized,
       PublishingFiles, ClearingFiles, SettledView, Settled, Publishing, MakeReport, Reactor,
       publishing, session, wire, world, watching

LEMMA LockClientInv == TypeOK /\ PublishInv /\ LockClient => PublishInv'
<1> SUFFICES ASSUME TypeOK, PublishInv, LockClient PROVE PublishInv'
  OBVIOUS
<1>1. /\ pc = "lock" /\ pc' = "publish" /\ todo' = Reported /\ Reported' = Reported
      /\ UNCHANGED <<sent, seenFileUris, report, lsp, handler>>
      /\ clientLock = "none" /\ clientLock' = "reactor" /\ attached' = CanPublish
  BY DEF LockClient, Reactor, run, session, wire, world, watching, Reported
<1>2. SentFilesAreTracked' /\ SessionStaysInitialized' /\ PublishingFiles' /\ ClearingFiles'
      /\ SettledView'
  BY <1>1 DEF PublishInv, SentFilesAreTracked, Publishing, SessionStaysInitialized, CanPublish,
              PublishingFiles, ClearingFiles, SettledView, Settled
<1>3. ClientIsExclusive'
  BY <1>1 DEF PublishInv, ClientIsExclusive, Publishing, Handlers
<1>4. QED
  BY <1>2, <1>3 DEF PublishInv

LEMMA PublishFileInv ==
  ASSUME TypeOK, Running, PublishInv, NEW f \in Files, PublishFile(f)
  PROVE  PublishInv'
<1>1. /\ pc = "publish" /\ pc' = "publish" /\ f \in todo /\ todo' = todo \ {f}
      /\ UNCHANGED <<seenFileUris, report, lsp, handler, attached, clientLock>>
      /\ Reported' = Reported
  BY DEF PublishFile, Reactor, run, session, world, watching, Reported
<1>2. /\ \A g \in Files : sent'[g] = sent[g] \/ (g = f /\ sent'[g] = report[f])
      /\ attached => sent'[f] = report[f]
  <2>1. report[f] \in Diags /\ PublishDiagnostics(f, report[f])
    BY DEF TypeOK, PublishFile
  <2>2. attached => CanPublish
    BY DEF PublishInv, SessionStaysInitialized, CanPublish, Running
  <2>3. QED
    BY <2>1, <2>2, PublicationEffect
<1>3. SentFilesAreTracked'
  BY <1>1, <1>2 DEF PublishInv, SentFilesAreTracked, Publishing, PublishingFiles
<1>4. PublishingFiles'
  BY <1>1, <1>2 DEF PublishInv, PublishingFiles, Reported
<1>5. ClientIsExclusive' /\ SessionStaysInitialized' /\ ClearingFiles' /\ SettledView'
  BY <1>1 DEF PublishInv, ClientIsExclusive, SessionStaysInitialized, ClearingFiles, SettledView,
              Settled, Publishing
<1>6. QED
  BY <1>3, <1>4, <1>5 DEF PublishInv

(* All of the report is sent; what else was sent before is about a file of *)
(* seen_file_uris, so it is left to clear.                                 *)
LEMMA BeginClearingInv == TypeOK /\ PublishInv /\ BeginClearing => PublishInv'
<1> SUFFICES ASSUME TypeOK, PublishInv, BeginClearing PROVE PublishInv'
  OBVIOUS
<1>1. /\ pc = "publish" /\ pc' = "clear" /\ todo = {} /\ todo' = seenFileUris \ Reported
      /\ UNCHANGED <<sent, seenFileUris, report, lsp, handler, attached, clientLock>>
      /\ Reported' = Reported
  BY DEF BeginClearing, Reactor, run, session, wire, world, watching, Reported
<1>2. ASSUME attached, NEW f \in Files \ todo' PROVE sent[f] = report[f]
  <2>1. CASE f \in Reported
    BY <1>1, <1>2, <2>1 DEF PublishInv, PublishingFiles
  <2>2. CASE f \notin Reported
    <3>1. report[f] = NoDiags /\ f \notin seenFileUris
      BY <1>1, <1>2, <2>2 DEF Reported
    <3>2. QED
      BY <2>2, <3>1 DEF PublishInv, SentFilesAreTracked
  <2>3. QED
    BY <2>1, <2>2
<1>3. ClearingFiles'
  BY <1>1, <1>2 DEF ClearingFiles
<1>4. SentFilesAreTracked' /\ ClientIsExclusive' /\ SessionStaysInitialized'
      /\ PublishingFiles' /\ SettledView'
  BY <1>1 DEF PublishInv, SentFilesAreTracked, ClientIsExclusive, SessionStaysInitialized,
              PublishingFiles, SettledView, Settled, Publishing
<1>5. QED
  BY <1>3, <1>4 DEF PublishInv

LEMMA ClearFileInv ==
  ASSUME TypeOK, Running, PublishInv, NEW f \in Files, ClearFile(f)
  PROVE  PublishInv'
<1>1. /\ pc = "clear" /\ pc' = "clear" /\ f \in todo /\ todo' = todo \ {f}
      /\ UNCHANGED <<seenFileUris, report, lsp, handler, attached, clientLock>>
      /\ Reported' = Reported
  BY DEF ClearFile, Reactor, run, session, world, watching, Reported
<1>2. /\ \A g \in Files : sent'[g] = sent[g] \/ (g = f /\ sent'[g] = NoDiags)
      /\ attached => sent'[f] = NoDiags
  <2>1. NoDiags \in Diags /\ PublishDiagnostics(f, NoDiags)
    BY DEF Diags, ClearFile
  <2>2. attached => CanPublish
    BY DEF PublishInv, SessionStaysInitialized, CanPublish, Running
  <2>3. QED
    BY <2>1, <2>2, PublicationEffect
<1>3. SentFilesAreTracked'
  BY <1>1, <1>2 DEF PublishInv, SentFilesAreTracked, Publishing
<1>4. ClearingFiles'
  <2>1. report[f] = NoDiags
    BY <1>1 DEF PublishInv, ClearingFiles, Reported
  <2>2. QED
    BY <1>1, <1>2, <2>1 DEF PublishInv, ClearingFiles
<1>5. ClientIsExclusive' /\ SessionStaysInitialized' /\ PublishingFiles' /\ SettledView'
  BY <1>1 DEF PublishInv, ClientIsExclusive, SessionStaysInitialized, PublishingFiles,
              SettledView, Settled, Publishing
<1>6. QED
  BY <1>3, <1>4, <1>5 DEF PublishInv

LEMMA FinishRunInv == TypeOK /\ PublishInv /\ FinishRun => PublishInv'
<1> SUFFICES ASSUME TypeOK, PublishInv, FinishRun PROVE PublishInv'
  OBVIOUS
<1>1. /\ pc = "clear" /\ pc' = "recv" /\ todo = {} /\ todo' = todo
      /\ seenFileUris' = seenFileUris \cup Reported /\ clientLock' = "none"
      /\ UNCHANGED <<sent, report, lsp, handler, attached>>
      /\ Reported' = Reported
  BY DEF FinishRun, Reactor, run, session, wire, world, watching, Reported
<1>2. SentFilesAreTracked'
  BY <1>1 DEF PublishInv, SentFilesAreTracked, Publishing
<1>3. ClientIsExclusive'
  BY <1>1 DEF PublishInv, ClientIsExclusive, Publishing, Handlers
<1>4. SettledView'
  BY <1>1 DEF PublishInv, ClearingFiles, SettledView, Settled, TypeOK
<1>5. SessionStaysInitialized' /\ PublishingFiles' /\ ClearingFiles'
  BY <1>1 DEF PublishInv, SessionStaysInitialized, PublishingFiles, ClearingFiles
<1>6. QED
  BY <1>2, <1>3, <1>4, <1>5 DEF PublishInv

(* A handler takes and gives back the client; the reactor does not publish *)
(* in between.                                                             *)
LEMMA HandlersInv ==
  ASSUME TypeOK, PublishInv, NEW h \in Handlers, HandlerLocks(h) \/ HandlerLogs(h)
  PROVE  PublishInv'
<1>1. /\ UNCHANGED <<pc, report, todo, seenFileUris, attached, lsp, sent>>
      /\ Reported' = Reported
  BY DEF HandlerLocks, HandlerLogs, run, publishing, world, watching, wire, Reported
<1>2. ClientIsExclusive'
  BY <1>1 DEF HandlerLocks, HandlerLogs, HandlerStep, PublishInv, ClientIsExclusive, Publishing,
              Handlers, TypeOK
<1>3. SentFilesAreTracked' /\ SessionStaysInitialized' /\ PublishingFiles' /\ ClearingFiles'
      /\ SettledView'
  BY <1>1 DEF PublishInv, SentFilesAreTracked, SessionStaysInitialized, PublishingFiles,
              ClearingFiles, SettledView, Settled, Publishing
<1>4. QED
  BY <1>2, <1>3 DEF PublishInv

LEMMA PublishInvStep == TypeOK /\ PublishInv /\ [Next]_vars => PublishInv'
<1> SUFFICES ASSUME TypeOK, PublishInv, [Next]_vars PROVE PublishInv'
  OBVIOUS
<1>1. CASE Environment \/ WatcherStep \/ EditorReads
  BY <1>1, QuietSteps, UntouchedInv
<1>2. CASE ReactorStep /\ Running
  <2>1. CASE \/ BeginRun \/ DeriveFails \/ LoadExits \/ Load \/ DetectPanics \/ DetectIssues
             \/ ReceiveEvent \/ \E f \in Files : ReadSource(f)
    BY <2>1, QuietSteps, UntouchedInv
  <2>2. QED
    BY <1>2, <2>1, MakeReportInv, LockClientInv, PublishFileInv, BeginClearingInv,
       ClearFileInv, FinishRunInv
    DEF ReactorStep
<1>3. ASSUME NEW h \in Handlers, HandlerLocks(h) \/ HandlerLogs(h) \/ Respond(h)
      PROVE  PublishInv'
  BY <1>3, HandlersInv, QuietSteps, UntouchedInv
<1>4. CASE UNCHANGED vars
  <2>1. Untouched
    BY <1>4 DEF vars, Untouched
  <2>2. QED
    BY <2>1, UntouchedInv
<1>5. QED
  BY <1>1, <1>2, <1>3, <1>4 DEF Next

(* What is sent, published and still to clear account for every file the   *)
(* editor shows, at every step of a run and of the session.                *)
THEOREM PublishInvariant == Spec => [](TypeOK /\ PublishInv)
<1>1. TypeOK /\ PublishInv /\ [Next]_vars => PublishInv'
  BY PublishInvStep
<1>2. QED
  BY InitPublishInv, <1>1, TypeCorrect, PTL DEF Spec

(* No file with diagnostics in the editor is ever missing from the set the *)
(* next run clears from, whatever runs failed or were dropped in between.  *)
THEOREM SentFilesTracked == Spec => []SentFilesAreTracked
<1>1. PublishInv => SentFilesAreTracked
  BY DEF PublishInv
<1>2. QED
  BY <1>1, PublishInvariant, PTL

(* The reactor and the handlers never use the client at the same time.     *)
THEOREM ClientExclusive == Spec => []ClientIsExclusive
<1>1. PublishInv => ClientIsExclusive
  BY DEF PublishInv
<1>2. QED
  BY <1>1, PublishInvariant, PTL

--------------------------------------------------------------------------------
LEMMA MirrorInit == Init => Mirror!Init
BY DEF Init, Mirror!Init, NoReport, Settled

(* A publication is a step of the mirror towards the report, or a stutter. *)
LEMMA PublicationMirrors ==
  ASSUME TypeOK, NEW f \in Files, PublishDiagnostics(f, report[f]),
         UNCHANGED report, ~Settled, Settled' = Settled
  PROVE  [Mirror!Next]_(Mirror!vars)
<1>1. CASE sent' = [sent EXCEPT ![f] = report[f]]
  BY <1>1 DEF Mirror!Next, Mirror!Send
<1>2. CASE UNCHANGED wire
  BY <1>2 DEF Mirror!vars, wire
<1>3. QED
  BY <1>1, <1>2 DEF PublishDiagnostics

LEMMA MirrorStep ==
  TypeOK /\ TypeOK' /\ PublishInv /\ PublishInv' /\ [Next]_vars => [Mirror!Next]_(Mirror!vars)
<1> SUFFICES ASSUME TypeOK, TypeOK', PublishInv, PublishInv', [Next]_vars
             PROVE  [Mirror!Next]_(Mirror!vars)
  OBVIOUS
<1>1. ASSUME Untouched PROVE [Mirror!Next]_(Mirror!vars)
  <2>1. Settled' = Settled
    BY <1>1 DEF Untouched, Settled, TypeOK
  <2>2. QED
    BY <1>1, <2>1 DEF Untouched, Mirror!vars
<1>2. CASE Environment \/ WatcherStep \/ EditorReads
  BY <1>1, <1>2, QuietSteps
<1>3. CASE ReactorStep
  <2>1. CASE \/ BeginRun \/ DeriveFails \/ LoadExits \/ Load \/ DetectPanics \/ DetectIssues
             \/ ReceiveEvent \/ \E f \in Files : ReadSource(f)
    BY <1>1, <2>1, QuietSteps
  <2>2. CASE MakeReport
    BY <2>2 DEF MakeReport, Reactor, wire, TypeOK, Settled, Mirror!Next, Mirror!NewReport
  <2>3. CASE LockClient \/ BeginClearing
    <3>1. UNCHANGED <<report, sent>> /\ ~Settled /\ ~Settled'
      BY <2>3 DEF LockClient, BeginClearing, Reactor, run, wire, Settled
    <3>2. Settled' = Settled
      BY <3>1 DEF Settled, TypeOK
    <3>3. QED
      BY <3>1, <3>2 DEF Mirror!vars
  <2>4. ASSUME NEW f \in Files, PublishFile(f) PROVE [Mirror!Next]_(Mirror!vars)
    <3>1. UNCHANGED report /\ ~Settled /\ Settled' = Settled
      BY <2>4 DEF PublishFile, Reactor, run, Settled
    <3>2. QED
      BY <2>4, <3>1, PublicationMirrors DEF PublishFile
  <2>5. ASSUME NEW f \in Files, ClearFile(f) PROVE [Mirror!Next]_(Mirror!vars)
    <3>1. UNCHANGED report /\ ~Settled /\ Settled' = Settled
      BY <2>5 DEF ClearFile, Reactor, run, Settled
    <3>2. report[f] = NoDiags
      BY <2>5 DEF ClearFile, Reactor, PublishInv, ClearingFiles, Reported
    <3>3. QED
      BY <2>5, <3>1, <3>2, PublicationMirrors DEF ClearFile
  <2>6. CASE FinishRun
    <3>1. UNCHANGED <<report, sent, attached>> /\ ~Settled
      BY <2>6 DEF FinishRun, Reactor, run, wire, Settled
    <3>2. CASE attached
      <4>1. Settled' = TRUE
        BY <2>6, <3>1, <3>2 DEF FinishRun, Reactor, Settled
      <4>2. sent = report
        BY <3>1, <4>1 DEF PublishInv, SettledView
      <4>3. QED
        BY <3>1, <4>1, <4>2 DEF Mirror!Next, Mirror!Settle
    <3>3. CASE ~attached
      BY <3>1, <3>3 DEF Settled, Mirror!vars
    <3>4. QED
      BY <3>2, <3>3
  <2>7. QED
    BY <1>3, <2>1, <2>2, <2>3, <2>4, <2>5, <2>6 DEF ReactorStep
<1>4. ASSUME NEW h \in Handlers, HandlerLocks(h) \/ HandlerLogs(h)
      PROVE  [Mirror!Next]_(Mirror!vars)
  BY <1>4 DEF HandlerLocks, HandlerLogs, run, publishing, wire, Settled, Mirror!vars
<1>5. ASSUME NEW h \in Handlers, Respond(h) PROVE [Mirror!Next]_(Mirror!vars)
  BY <1>1, <1>5, QuietSteps
<1>6. CASE UNCHANGED vars
  BY <1>6 DEF vars, Settled, Mirror!vars
<1>7. QED
  BY <1>2, <1>3, <1>4, <1>5, <1>6 DEF Next

(* The language server implements the mirror: a run that ended in an       *)
(* initialized session leaves the editor with its whole report and nothing *)
(* else, and between reports nothing is sent that is not of the last one.  *)
THEOREM MirrorImplemented == Spec => ImplementsMirror
<1>1. TypeOK /\ PublishInv /\ (TypeOK /\ PublishInv)' /\ [Next]_vars
      => [Mirror!Next]_(Mirror!vars)
  BY MirrorStep
<1>2. QED
  BY MirrorInit, <1>1, PublishInvariant, PTL DEF Spec, ImplementsMirror, Mirror!Spec
================================================================================
