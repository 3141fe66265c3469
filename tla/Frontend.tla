------------------------------- MODULE Frontend -------------------------------
(***************************************************************************)
(* One call after another on the way from a text to a reply: version scan, *)
(* parse and analysis, with files that others write in between and streams *)
(* that belong to the caller (cqasm-version.cpp; the parse helpers; the    *)
(* analyze functions of v1x/ and v3x/cqasm-analyzer.cpp).                  *)
(*                                                                         *)
(* Every step is one visit to the file system, or the work between two.    *)
(***************************************************************************)
EXTENDS FrontendCalls

CONSTANTS
  FileTexts,   \* what others write to the file: texts, or Missing
  StreamTexts, \* what the stream of the caller holds
  MaxCalls,    \* bound: calls made
  MaxChanges   \* bound: changes of the file

VARIABLES
  file,        \* the text at the path, or Missing
  stream,      \* [text, at_end]: the FILE* of the caller
  call,        \* the call being served
  phase,       \* "idle", "version", "open", "parse", "analyze", "reply"
  opened,      \* what the handle or buffer of the parser was made from
  result,      \* the ParseResult, then the AnalysisResult
  reply,       \* what the last call got
  handles,     \* open FILE*s of the library
  seen,        \* history: texts the source of the call had since it was made
  unreadable,  \* history: files opened in which no version was found
  calls, changes   \* bound counters

vars == <<file, stream, call, phase, opened, result, reply, handles, seen, unreadable,
          calls, changes>>

ASSUME BoundsAssumption ==
  FileTexts \subseteq Texts \cup {Missing} /\ StreamTexts \subseteq Texts
  /\ MaxCalls \in Nat /\ MaxChanges \in Nat

-----------------------------------------------------------------------------
(* What a read of the source gives.                                        *)
Rest(s) == IF s.at_end THEN EndOfFile ELSE s.text

TextOf(c) ==
  CASE c.source = "path"   -> file
    [] c.source = "string" -> c.data
    [] c.source = "stream" -> Rest(stream)

FromPath   == call.source = "path"
FromStream == call.source = "stream"

Phases == {"idle", "version", "open", "parse", "analyze", "reply"}

Init ==
  /\ file \in FileTexts /\ stream \in [text : StreamTexts, at_end : {FALSE}]
  /\ call = NoCall /\ phase = "idle" /\ opened = Missing
  /\ result = NoResult /\ reply = NoReply
  /\ handles = 0 /\ seen = {} /\ unreadable = 0 /\ calls = 0 /\ changes = 0

(* Others write the file, or remove it; the caller rewinds its stream.     *)
Write(text) ==
  /\ changes < MaxChanges /\ text # file
  /\ file' = text /\ changes' = changes + 1
  /\ seen' = IF phase # "idle" /\ FromPath THEN seen \cup {text} ELSE seen
  /\ UNCHANGED <<stream, call, phase, opened, result, reply, handles, unreadable, calls>>

RewindStream ==
  /\ phase = "idle" /\ stream.at_end
  /\ stream' = [stream EXCEPT !.at_end = FALSE]
  /\ UNCHANGED <<file, call, phase, opened, result, reply, handles, seen, unreadable,
                 calls, changes>>

(* Parsing alone reads no version.                                         *)
Begin(c) ==
  /\ phase = "idle" /\ calls < MaxCalls
  /\ call' = c /\ calls' = calls + 1
  /\ phase' = IF c.op = "parse" THEN "open" ELSE "version"
  /\ seen' = {TextOf(c)}
  /\ result' = NoResult /\ opened' = Missing /\ reply' = NoReply
  /\ UNCHANGED <<file, stream, handles, unreadable, changes>>

-----------------------------------------------------------------------------
(* The version scan.  The closures that catch its errors put them into a   *)
(* result.                                                                 *)
Refuse(at) ==
  /\ phase' = "reply" /\ result' = Result(<<at>>, Missing)

VersionIn(text) == IF text = Missing THEN <<>> ELSE Stated[text]

(* Mutant: the stream stays where the scan has left it.                    *)
Exhausted(s, version) == [s EXCEPT !.at_end = TRUE]

(* The stream is rewound when a version was found.                         *)
AfterScan(s, version) == [s EXCEPT !.at_end = version = <<>>]

(* A file is closed only when a version was found in it.                   *)
VersionUnreadable ==
  /\ phase = "version" /\ VersionIn(TextOf(call)) = <<>>
  /\ Refuse(ScanErrorPlace(TextOf(call)))
  /\ LET opens == FromPath /\ file # Missing IN
     /\ handles' = IF opens THEN handles + 1 ELSE handles
     /\ unreadable' = IF opens THEN unreadable + 1 ELSE unreadable
  /\ stream' = IF FromStream THEN AfterScan(stream, <<>>) ELSE stream
  /\ UNCHANGED <<file, call, opened, reply, seen, calls, changes>>

VersionRead ==
  LET version == VersionIn(TextOf(call)) IN
  /\ phase = "version" /\ version # <<>>
  /\ IF Exceeds(version, call.api) THEN Refuse(Nowhere)
     ELSE phase' = "open" /\ UNCHANGED result
  /\ stream' = IF FromStream THEN AfterScan(stream, version) ELSE stream
  /\ UNCHANGED <<file, call, opened, reply, handles, seen, unreadable, calls, changes>>

-----------------------------------------------------------------------------
(* The source of the parser.  In version 3 its scanner looks whether there *)
(* is a file before anything is caught; in version 1 it opens the file.    *)
OpenMissing ==
  /\ phase = "open" /\ TextOf(call) = Missing
  /\ IF call.dialect = "v3x"
     THEN reply' = Thrown("missing") /\ phase' = "idle" /\ UNCHANGED result
     ELSE Refuse(Nowhere) /\ UNCHANGED reply
  /\ UNCHANGED <<file, stream, call, opened, handles, seen, unreadable, calls, changes>>

HoldsFile == FromPath /\ call.dialect = "v1x"

(* Mutants: the destructor of the helper leaves its file open, or the      *)
(* helper closes it a second time.                                         *)
LeftOpen(n)    == n
ClosedTwice(n) == n - 2

Closed(n) == n - 1

OpenSource ==
  /\ phase = "open" /\ TextOf(call) # Missing
  /\ opened' = TextOf(call) /\ phase' = "parse"
  /\ handles' = IF HoldsFile THEN handles + 1 ELSE handles
  /\ UNCHANGED <<file, stream, call, result, reply, seen, unreadable, calls, changes>>

(* Version 3 reads the file now; one that is gone by now reads as empty.   *)
ParserText ==
  IF ~FromPath \/ HoldsFile THEN opened
  ELSE IF file = Missing    THEN EndOfFile
  ELSE                           file

ParseSource ==
  /\ phase = "parse"
  /\ \E r \in Parsed[call.dialect][ParserText] :
       /\ result' = r
       /\ phase' = IF call.op = "parse" \/ r.errors # <<>> THEN "reply" ELSE "analyze"
  /\ handles' = IF HoldsFile THEN Closed(handles) ELSE handles
  /\ stream' = IF FromStream THEN [stream EXCEPT !.at_end = TRUE] ELSE stream
  /\ UNCHANGED <<file, call, opened, reply, seen, unreadable, calls, changes>>

-----------------------------------------------------------------------------
(* The analysis checks the version again, that of the tree, and goes on.   *)
(* Mutant: the version was checked already.                                *)
NoVersionErrors(a, api) == <<>>

VersionErrors(a, api) == IF Exceeds(a.version, api) THEN <<a.at>> ELSE <<>>

AnalysisErrors(a, api) == VersionErrors(a, api) \o a.errors

(* An analysis that does not end throws what it met; a tree without errors *)
(* that is not well-formed is an internal error.                           *)
ConcludeAnalysis(a, errors) ==
  IF ~a.ends \/ (errors = <<>> /\ ~a.whole)
  THEN reply' = Thrown("internal") /\ phase' = "idle" /\ UNCHANGED result
  ELSE /\ phase' = "reply" /\ UNCHANGED reply
       /\ result' = SemanticResult(errors, result.root, a.version, a.meaning)

AnalyzeTree ==
  /\ phase = "analyze"
  /\ \E a \in Analyzed[call.dialect][result.root] :
       ConcludeAnalysis(a, AnalysisErrors(a, call.api))
  /\ UNCHANGED <<file, stream, call, opened, handles, seen, unreadable, calls, changes>>

Answer ==
  /\ phase = "reply"
  /\ reply' = ReplyTo(call, result) /\ phase' = "idle"
  /\ UNCHANGED <<file, stream, call, opened, result, handles, seen, unreadable, calls, changes>>

Serve ==
  \/ VersionUnreadable \/ VersionRead
  \/ OpenMissing \/ OpenSource \/ ParseSource
  \/ AnalyzeTree \/ Answer

Next ==
  \/ \E text \in FileTexts : Write(text)
  \/ RewindStream
  \/ \E c \in Calls : Begin(c)
  \/ Serve

(* A call is served by the thread of its caller and waits for nobody: it   *)
(* goes on to its next phase.                                              *)
Progress == phase # "idle" /\ phase' \in Phases \ {phase}

Spec == Init /\ [][Next]_vars /\ WF_phase(Progress)

-----------------------------------------------------------------------------
(* Properties.                                                             *)

(* Type correctness.                                                       *)
TypeOK ==
  /\ file \in Texts \cup {Missing}
  /\ stream \in [text : Texts, at_end : BOOLEAN]
  /\ call \in CallType /\ phase \in Phases
  /\ opened \in Texts \cup {Missing}
  /\ reply.kind \in {"tree", "errors", "thrown"}
  /\ handles \in Nat /\ unreadable \in Nat
  /\ calls \in 0 .. MaxCalls /\ changes \in 0 .. MaxChanges

(* No analysis returns the tree of a program of a later version than that  *)
(* of the analyzer, not even when the file is replaced between the scan    *)
(* for its version and the parse: analyze of v3x/cqasm-analyzer.cpp looks  *)
(* at the scanned version, visit_version at the parsed one.                *)
VersionSupported ==
  phase = "idle" /\ call.op # "parse" /\ reply.kind = "tree" =>
    ~Exceeds(reply.version, call.api)

(* Between calls the library holds no FILE* but one for every file in      *)
(* which it found no version (cqasm-version.cpp:148 throws before 149      *)
(* closes); whatever else fails, or changes meanwhile, closes its file.    *)
HandlesAccountedFor ==
  handles = unreadable + (IF phase = "parse" /\ HoldsFile THEN 1 ELSE 0)

(* Served step by step, with files replaced and streams left anywhere in   *)
(* between, every call is answered, with a reply of its contract.          *)
Contract == INSTANCE FrontendContract WITH busy <- phase # "idle"
ImplementsContract == Contract!Spec
=============================================================================
