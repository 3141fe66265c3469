---------------------------- MODULE FrontendProofs ----------------------------
(***************************************************************************)
(* Proofs about Frontend, for every set of texts, whatever the scanners,   *)
(* parsers and analyzers make of them, for every set of calls and every    *)
(* bound: its invariants, and that its steps are those FrontendContract    *)
(* promises or none.  (That every call is answered is left to model        *)
(* checking.)                                                              *)
(***************************************************************************)
EXTENDS Frontend, SequenceTheorems, TLAPS

-----------------------------------------------------------------------------
(* Versions: the comparison is a total order once missing components are   *)
(* read as 0.                                                              *)
LEMMA ComponentNat ==
  ASSUME NEW v \in Version, NEW i \in Int
  PROVE  Component(v, i) \in Nat
BY DEF Component, Version

LEMMA PositionsPositive ==
  ASSUME NEW v \in Version, NEW w \in Version, NEW i \in Positions(v, w)
  PROVE  i \in Int /\ i >= 1
BY DEF Positions, Version

(* Where neither version has a component there is no difference.           *)
LEMMA DifferenceInside ==
  ASSUME NEW v \in Version, NEW w \in Version, NEW i \in Nat, i >= 1,
         Component(v, i) # Component(w, i)
  PROVE  i \in Positions(v, w)
BY DEF Component, Positions

(* A version is never newer than one that is newer than it: in compare     *)
(* (cqasm-version.cpp:53-69) the two tests cannot both hold.               *)
THEOREM NewerAsymmetric ==
  ASSUME NEW v \in Version, NEW w \in Version, Newer(v, w)
  PROVE  ~Newer(w, v)
<1>1. PICK i \in Positions(v, w) : NewerAt(v, w, i)
  BY DEF Newer
<1>2. SUFFICES ASSUME NEW k \in Positions(w, v), NewerAt(w, v, k)
               PROVE  FALSE
  BY DEF Newer
<1>3. i \in Int /\ i >= 1 /\ k \in Int /\ k >= 1
  BY PositionsPositive
<1>4. /\ Component(v, i) \in Nat /\ Component(w, i) \in Nat
      /\ Component(v, k) \in Nat /\ Component(w, k) \in Nat
  BY <1>3, ComponentNat
<1>5. CASE i < k
  BY <1>1, <1>2, <1>3, <1>4, <1>5 DEF NewerAt
<1>6. CASE k <= i
  BY <1>1, <1>2, <1>3, <1>4, <1>6 DEF NewerAt
<1>7. QED
  BY <1>3, <1>5, <1>6

(* Comparing the other way round gives the opposite answer.                *)
THEOREM CompareAntisymmetric ==
  ASSUME NEW v \in Version, NEW w \in Version
  PROVE  Compare(v, w) = -Compare(w, v)
BY NewerAsymmetric DEF Compare

(* Newer is transitive: a check against the maximum carries over to every  *)
(* version below it.                                                       *)
THEOREM NewerTransitive ==
  ASSUME NEW u \in Version, NEW v \in Version, NEW w \in Version,
         Newer(u, v), Newer(v, w)
  PROVE  Newer(u, w)
<1>1. PICK i \in Positions(u, v) : NewerAt(u, v, i)
  BY DEF Newer
<1>2. PICK k \in Positions(v, w) : NewerAt(v, w, k)
  BY DEF Newer
<1>3. i \in Nat /\ i >= 1 /\ k \in Nat /\ k >= 1
  BY PositionsPositive
<1>4. /\ Component(u, i) \in Nat /\ Component(v, i) \in Nat /\ Component(w, i) \in Nat
      /\ Component(u, k) \in Nat /\ Component(v, k) \in Nat /\ Component(w, k) \in Nat
  BY <1>3, ComponentNat
<1> DEFINE first == IF i <= k THEN i ELSE k
<1>5. Component(u, first) > Component(w, first)
  BY <1>1, <1>2, <1>3, <1>4 DEF NewerAt
<1>6. \A j \in 1 .. first - 1 : Component(u, j) = Component(w, j)
  BY <1>1, <1>2, <1>3 DEF NewerAt
<1>7. first \in Positions(u, w)
  <2>1. first \in Nat /\ first >= 1
    BY <1>3
  <2>2. Component(u, first) # Component(w, first)
    BY <1>3, <1>4, <1>5
  <2>3. QED
    BY <2>1, <2>2, DifferenceInside
<1>8. QED
  BY <1>5, <1>6, <1>7 DEF Newer, NewerAt

(* "1.0" and "1" are the same version: trailing zeros change no answer     *)
(* (cqasm-version.hpp:32-33, missing components are interpreted as 0).     *)
THEOREM TrailingZeros ==
  ASSUME NEW v \in Version, NEW w \in Version
  PROVE  Compare(Append(v, 0), w) = Compare(v, w)
<1> DEFINE longer == Append(v, 0)
<1>1. longer \in Version
  BY DEF Version
<1>2. \A i \in Nat : i >= 1 => Component(longer, i) = Component(v, i)
  BY DEF Component, Version
<1>3. ASSUME NEW a \in Version, NEW b \in Version, NEW c \in Version, NEW d \in Version,
             \A i \in Nat : i >= 1 => Component(a, i) = Component(c, i),
             \A i \in Nat : i >= 1 => Component(b, i) = Component(d, i),
             Newer(a, b)
      PROVE  Newer(c, d)
  <2>1. PICK i \in Positions(a, b) : NewerAt(a, b, i)
    BY <1>3 DEF Newer
  <2>2. i \in Nat /\ i >= 1
    BY PositionsPositive
  <2>3. NewerAt(c, d, i)
    BY <1>3, <2>1, <2>2 DEF NewerAt
  <2>4. Component(c, i) # Component(d, i)
    BY <2>2, <2>3, ComponentNat DEF NewerAt
  <2>5. QED
    BY <2>2, <2>3, <2>4, DifferenceInside DEF Newer
<1>4. Newer(longer, w) <=> Newer(v, w)
  BY <1>1, <1>2, <1>3
<1>5. Newer(w, longer) <=> Newer(w, v)
  BY <1>1, <1>2, <1>3
<1>6. QED
  BY <1>4, <1>5 DEF Compare

-----------------------------------------------------------------------------
(* Calls and replies.                                                      *)
(* A result on its way to the caller is already of a version the analyzer  *)
(* supports: VersionSupported, before the reply is there.                  *)
ResultSupported ==
  phase = "reply" /\ call.op # "parse" /\ result.errors = <<>> =>
    ~Exceeds(result.version, call.api)

(* What is parsed, and the tree that is analyzed, are of known texts.      *)
TextsKnown ==
  /\ phase = "parse" => opened \in Texts
  /\ phase = "analyze" => result.root \in Texts

IInv == TypeOK /\ HandlesAccountedFor /\ TextsKnown /\ ResultSupported /\ VersionSupported

USE DEF Phases

LEMMA Inputs ==
  /\ EndOfFile \in Texts /\ Missing \notin Texts
  /\ Calls \subseteq CallType /\ FileTexts \subseteq Texts \cup {Missing}
  /\ StreamTexts \subseteq Texts /\ MaxCalls \in Nat /\ MaxChanges \in Nat
BY FrontendAssumption, BoundsAssumption

LEMMA CallFields ==
  ASSUME NEW c \in CallType
  PROVE  /\ c.dialect \in {"v1x", "v3x"} /\ c.source \in {"path", "string", "stream"}
         /\ c.op \in {"parse", "analyze", "unwrap"} /\ c.data \in Texts
BY DEF CallType, Dialects

(* The kinds of replies there are.                                         *)
LEMMA ReplyKinds ==
  ASSUME NEW c, NEW r, NEW what
  PROVE  /\ Thrown(what).kind = "thrown"
         /\ ReplyTo(c, r).kind \in {"tree", "errors", "thrown"}
         /\ ReplyTo(c, r).kind = "tree" => r.errors = <<>> /\ ReplyTo(c, r).version = r.version
BY DEF Thrown, ReplyTo, Tree, Errors, Reply, Result, SemanticResult

(* With no file open and no call served, the invariant holds.               *)
THEOREM InitInv == Init => IInv
<1> SUFFICES ASSUME Init PROVE IInv
  OBVIOUS
<1>1. NoCall \in CallType
  BY Inputs DEF NoCall, CallType, Dialects, Version
<1>2. TypeOK
  <2>1. stream \in [text : Texts, at_end : BOOLEAN]
    BY Inputs DEF Init
  <2>2. reply.kind \in {"tree", "errors", "thrown"}
    BY ReplyKinds DEF Init, NoReply
  <2>3. 0 \in 0 .. MaxCalls /\ 0 \in 0 .. MaxChanges
    BY Inputs
  <2>4. QED
    BY <1>1, <2>1, <2>2, <2>3, Inputs DEF Init, TypeOK
<1>3. HandlesAccountedFor
  BY DEF Init, HandlesAccountedFor
<1>4. TextsKnown /\ ResultSupported /\ VersionSupported
  BY ReplyKinds DEF Init, TextsKnown, ResultSupported, VersionSupported, NoReply
<1>5. QED
  BY <1>2, <1>3, <1>4 DEF IInv

-----------------------------------------------------------------------------
(* A step that leaves the call in progress, the parser's file and the      *)
(* reply alone keeps what the invariant says of them.                      *)
LEMMA WriteInv ==
  ASSUME IInv, NEW text \in FileTexts, Write(text)
  PROVE  IInv'
<1>1. changes' \in 0 .. MaxChanges
  BY Inputs DEF IInv, TypeOK, Write
<1>2. TypeOK'
  BY <1>1, Inputs DEF IInv, TypeOK, Write
<1>3. QED
  BY <1>2 DEF IInv, HandlesAccountedFor, HoldsFile, FromPath, TextsKnown, ResultSupported, VersionSupported, Write

LEMMA RewindInv ==
  ASSUME IInv, RewindStream
  PROVE  IInv'
<1>1. stream' \in [text : Texts, at_end : BOOLEAN]
  BY DEF IInv, TypeOK, RewindStream
<1>2. TypeOK'
  BY <1>1 DEF IInv, TypeOK, RewindStream
<1>3. QED
  BY <1>2 DEF IInv, HandlesAccountedFor, HoldsFile, FromPath, TextsKnown, ResultSupported, VersionSupported, RewindStream

LEMMA BeginInv ==
  ASSUME IInv, NEW c \in Calls, Begin(c)
  PROVE  IInv'
<1>1. calls' \in 0 .. MaxCalls
  BY Inputs DEF IInv, TypeOK, Begin
<1>2. phase' \in {"open", "version"} /\ phase = "idle"
  BY DEF Begin
<1>3. reply'.kind \in {"tree", "errors", "thrown"}
  BY ReplyKinds DEF Begin, NoReply
<1>4. TypeOK'
  BY <1>1, <1>2, <1>3, Inputs DEF IInv, TypeOK, Begin
<1>5. HandlesAccountedFor'
  BY <1>2 DEF IInv, HandlesAccountedFor, Begin
<1>6. QED
  BY <1>2, <1>4, <1>5 DEF IInv, TextsKnown, ResultSupported, VersionSupported

(* A refusal is a result with an error.                                    *)
LEMMA Refusals ==
  ASSUME NEW at, Refuse(at)
  PROVE  phase' = "reply" /\ result'.errors # <<>>
BY DEF Refuse, Result, SemanticResult

LEMMA VersionUnreadableInv ==
  ASSUME IInv, VersionUnreadable
  PROVE  IInv'
<1>1. phase = "version" /\ phase' = "reply" /\ result'.errors # <<>>
  BY Refusals DEF VersionUnreadable
<1>2. \/ handles' = handles /\ unreadable' = unreadable
      \/ handles' = handles + 1 /\ unreadable' = unreadable + 1
  BY DEF VersionUnreadable
<1>3. stream' \in [text : Texts, at_end : BOOLEAN]
  <2>1. CASE FromStream
    <3>1. stream' = [stream EXCEPT !.at_end = TRUE]
      BY <2>1 DEF VersionUnreadable, AfterScan
    <3>2. QED
      BY <3>1 DEF IInv, TypeOK
  <2>2. CASE ~FromStream
    BY <2>2 DEF IInv, TypeOK, VersionUnreadable
  <2>3. QED
    BY <2>1, <2>2
<1>4. TypeOK'
  BY <1>1, <1>2, <1>3 DEF IInv, TypeOK, VersionUnreadable
<1>5. HandlesAccountedFor'
  BY <1>1, <1>2 DEF IInv, TypeOK, HandlesAccountedFor
<1>6. QED
  BY <1>1, <1>4, <1>5 DEF IInv, TextsKnown, ResultSupported, VersionSupported

LEMMA VersionReadInv ==
  ASSUME IInv, VersionRead
  PROVE  IInv'
<1>1. /\ phase = "version" /\ phase' \in {"open", "reply"}
      /\ phase' = "reply" => result'.errors # <<>>
  BY Refusals DEF VersionRead
<1>2. stream' \in [text : Texts, at_end : BOOLEAN]
  <2>1. CASE FromStream
    <3>1. stream' = [stream EXCEPT !.at_end = FALSE]
      BY <2>1 DEF VersionRead, AfterScan
    <3>2. QED
      BY <3>1 DEF IInv, TypeOK
  <2>2. CASE ~FromStream
    BY <2>2 DEF IInv, TypeOK, VersionRead
  <2>3. QED
    BY <2>1, <2>2
<1>3. TypeOK'
  BY <1>1, <1>2 DEF IInv, TypeOK, VersionRead
<1>4. HandlesAccountedFor'
  BY <1>1 DEF IInv, HandlesAccountedFor, VersionRead
<1>5. QED
  BY <1>1, <1>3, <1>4 DEF IInv, TextsKnown, ResultSupported, VersionSupported

LEMMA OpenMissingInv ==
  ASSUME IInv, OpenMissing
  PROVE  IInv'
<1>1. /\ phase = "open" /\ phase' \in {"idle", "reply"}
      /\ reply'.kind \in {"tree", "errors", "thrown"}
      /\ phase' = "idle" => reply'.kind = "thrown"
      /\ phase' = "reply" => result'.errors # <<>>
  BY Refusals, ReplyKinds DEF OpenMissing, IInv, TypeOK
<1>2. TypeOK'
  BY <1>1 DEF IInv, TypeOK, OpenMissing
<1>3. HandlesAccountedFor'
  BY <1>1 DEF IInv, HandlesAccountedFor, OpenMissing
<1>4. QED
  BY <1>1, <1>2, <1>3 DEF IInv, TextsKnown, ResultSupported, VersionSupported

LEMMA OpenSourceInv ==
  ASSUME IInv, OpenSource
  PROVE  IInv'
<1>1. opened' \in Texts
  <2>1. call.source \in {"path", "string", "stream"} /\ call.data \in Texts
    BY CallFields DEF IInv, TypeOK
  <2>2. Rest(stream) \in Texts
    BY Inputs DEF IInv, TypeOK, Rest
  <2>3. QED
    BY <2>1, <2>2 DEF IInv, TypeOK, OpenSource, TextOf
<1>2. TypeOK'
  BY <1>1 DEF IInv, TypeOK, OpenSource
<1>3. HandlesAccountedFor'
  BY DEF IInv, TypeOK, HandlesAccountedFor, HoldsFile, FromPath, OpenSource
<1>4. QED
  BY <1>1, <1>2, <1>3 DEF IInv, TextsKnown, ResultSupported, VersionSupported, OpenSource

LEMMA ParseSourceInv ==
  ASSUME IInv, ParseSource
  PROVE  IInv'
<1>1. /\ phase = "parse" /\ phase' \in {"reply", "analyze"}
      /\ phase' = "reply" => call.op = "parse" \/ result'.errors # <<>>
  BY DEF ParseSource
<1>2. handles' = unreadable /\ unreadable' = unreadable
  BY <1>1 DEF IInv, TypeOK, HandlesAccountedFor, ParseSource, Closed
<1>3. stream' \in [text : Texts, at_end : BOOLEAN]
  BY DEF IInv, TypeOK, ParseSource
<1>4. TypeOK'
  BY <1>1, <1>2, <1>3 DEF IInv, TypeOK, ParseSource
<1>5. HandlesAccountedFor'
  BY <1>1, <1>2 DEF IInv, TypeOK, HandlesAccountedFor
<1>6. TextsKnown'
  <2>1. ParserText \in Texts
    BY <1>1, Inputs DEF IInv, TypeOK, TextsKnown, ParserText
  <2>2. call.dialect \in Dialects
    BY CallFields DEF IInv, TypeOK, Dialects
  <2>3. phase' = "analyze" => result' \in Parsed[call.dialect][ParserText] /\ result'.errors = <<>>
    BY DEF ParseSource
  <2>4. QED
    BY <1>1, <2>1, <2>2, <2>3, FrontendAssumption DEF TextsKnown
<1>7. QED
  BY <1>1, <1>4, <1>5, <1>6 DEF IInv, ResultSupported, VersionSupported, ParseSource

(* Without errors the analysis has compared the version of the tree.       *)
LEMMA AnalysisErrorsEmpty ==
  ASSUME NEW a, IsList(a.errors), NEW api, AnalysisErrors(a, api) = <<>>
  PROVE  ~Exceeds(a.version, api)
<1> SUFFICES ASSUME Exceeds(a.version, api) PROVE FALSE
  OBVIOUS
<1>1. <<a.at>> \o a.errors = <<>>
  BY DEF AnalysisErrors, VersionErrors
<1>2. \E S : a.errors \in Seq(S)
  BY DEF IsList
<1>3. PICK S : a.errors \in Seq(S)
  BY <1>2
<1>4. a.errors \in Seq(S \cup {a.at}) /\ <<a.at>> \in Seq(S \cup {a.at})
  BY <1>3
<1>5. <<a.at>> = <<>>
  BY <1>1, <1>4, ConcatEqualIffEmpty
<1>6. QED
  BY <1>5

LEMMA AnalyzeTreeInv ==
  ASSUME IInv, AnalyzeTree
  PROVE  IInv'
<1>1. phase = "analyze" /\ call.dialect \in Dialects
  BY CallFields DEF AnalyzeTree, IInv, TypeOK, Dialects
<1>2. PICK a \in Analyzed[call.dialect][result.root] :
        ConcludeAnalysis(a, AnalysisErrors(a, call.api))
  BY DEF AnalyzeTree
<1>3. IsList(a.errors)
  BY <1>1, FrontendAssumption DEF IInv, TextsKnown
<1>4. /\ phase' \in {"idle", "reply"}
      /\ reply'.kind \in {"tree", "errors", "thrown"}
      /\ phase' = "idle" => reply'.kind = "thrown"
  BY <1>2, ReplyKinds DEF ConcludeAnalysis, IInv, TypeOK
<1>5. phase' = "reply" /\ result'.errors = <<>> => ~Exceeds(result'.version, call.api)
  BY <1>2, <1>3, AnalysisErrorsEmpty DEF ConcludeAnalysis, SemanticResult
<1>6. TypeOK'
  BY <1>4 DEF IInv, TypeOK, AnalyzeTree
<1>7. HandlesAccountedFor'
  BY <1>1, <1>4 DEF IInv, HandlesAccountedFor, AnalyzeTree
<1>8. QED
  BY <1>4, <1>5, <1>6, <1>7 DEF IInv, TextsKnown, ResultSupported, VersionSupported, AnalyzeTree

LEMMA AnswerInv ==
  ASSUME IInv, Answer
  PROVE  IInv'
<1>1. phase = "reply" /\ phase' = "idle"
  BY DEF Answer
<1>2. /\ reply'.kind \in {"tree", "errors", "thrown"}
      /\ reply'.kind = "tree" => result.errors = <<>> /\ reply'.version = result.version
  BY ReplyKinds DEF Answer
<1>3. TypeOK'
  BY <1>1, <1>2 DEF IInv, TypeOK, Answer
<1>4. HandlesAccountedFor'
  BY <1>1 DEF IInv, HandlesAccountedFor, Answer
<1>5. QED
  BY <1>1, <1>2, <1>3, <1>4 DEF IInv, TextsKnown, ResultSupported, VersionSupported, Answer

-----------------------------------------------------------------------------
LEMMA StutterInv ==
  ASSUME IInv, UNCHANGED vars
  PROVE  IInv'
BY DEF IInv, TypeOK, HandlesAccountedFor, HoldsFile, FromPath, TextsKnown, ResultSupported,
       VersionSupported, vars

(* Every stage of a call, every write and every rewind keeps the invariant. *)
THEOREM NextInv == IInv /\ [Next]_vars => IInv'
<1> SUFFICES ASSUME IInv, [Next]_vars PROVE IInv'
  OBVIOUS
<1>1. ASSUME NEW text \in FileTexts, Write(text) PROVE IInv'
  BY <1>1, WriteInv
<1>2. CASE RewindStream
  BY <1>2, RewindInv
<1>3. ASSUME NEW c \in Calls, Begin(c) PROVE IInv'
  BY <1>3, BeginInv
<1>4. CASE VersionUnreadable
  BY <1>4, VersionUnreadableInv
<1>5. CASE VersionRead
  BY <1>5, VersionReadInv
<1>6. CASE OpenMissing
  BY <1>6, OpenMissingInv
<1>7. CASE OpenSource
  BY <1>7, OpenSourceInv
<1>8. CASE ParseSource
  BY <1>8, ParseSourceInv
<1>9. CASE AnalyzeTree
  BY <1>9, AnalyzeTreeInv
<1>10. CASE Answer
  BY <1>10, AnswerInv
<1>11. CASE UNCHANGED vars
  BY <1>11, StutterInv
<1>12. QED
  BY <1>1, <1>2, <1>3, <1>4, <1>5, <1>6, <1>7, <1>8, <1>9, <1>10, <1>11 DEF Next, Serve

(* The strengthened invariant holds of every run of the front end.         *)
THEOREM Invariant == Spec => []IInv
BY InitInv, NextInv, PTL DEF Spec

(* Files, streams, calls and replies are of their types at every visit to  *)
(* the file system (the parse and analyze functions of both versions).     *)
THEOREM TypeCorrect == Spec => []TypeOK
<1>1. IInv => TypeOK
  BY DEF IInv
<1>2. QED
  BY <1>1, Invariant, PTL

(* No analysis returns the tree of a program of a later version than its   *)
(* own, whatever is written to the file between scan and parse and         *)
(* whatever a parser makes of it: visit_version compares what was parsed.  *)
THEOREM VersionSupportedHolds == Spec => []VersionSupported
<1>1. IInv => VersionSupported
  BY DEF IInv
<1>2. QED
  BY <1>1, Invariant, PTL

(* The library loses the FILE* of a file in which it finds no version      *)
(* (cqasm-version.cpp:148), and no other.                                  *)
THEOREM HandlesAccountedForHolds == Spec => []HandlesAccountedFor
<1>1. IInv => HandlesAccountedFor
  BY DEF IInv
<1>2. QED
  BY <1>1, Invariant, PTL

-----------------------------------------------------------------------------
(* The contract.                                                           *)
(* A text with whose version the call goes on; for a call that only        *)
(* parses, any.                                                            *)
Admitted == \E v \in seen : ~Contract!Unversioned(call, v)

ParsedFrom(text) == result \in Parsed[call.dialect][text]

Deserved ==
  \E v \in seen, b \in Contract!Readable(seen) :
    ReplyTo(call, result) \in Contract!RepliesTo(call, v, b)

(* Where what is at hand in each phase comes from: a text that the source  *)
(* of the call had while it was served.                                    *)
Provenance ==
  /\ phase # "idle" /\ FromPath => file \in seen
  /\ phase \in {"version", "open"} => TextOf(call) \in seen
  /\ phase = "version" => call.op # "parse"
  /\ phase \in {"open", "parse", "analyze"} => Admitted
  /\ phase = "parse" => opened \in seen
  /\ phase = "analyze" =>
       /\ call.op # "parse" /\ result.errors = <<>>
       /\ \E b \in Contract!Readable(seen) \cap Texts : ParsedFrom(b)
  /\ phase = "reply" => Deserved

-----------------------------------------------------------------------------
(* The contract speaks of calls in the words of FrontendCalls.             *)
LEMMA SameOrder == \A v, w : Contract!Exceeds(v, w) = Exceeds(v, w)
BY DEF Exceeds, Compare, Newer, NewerAt, Component, Positions, Contract!Exceeds,
       Contract!Compare, Contract!Newer, Contract!NewerAt, Contract!Component,
       Contract!Positions

LEMMA SameResults ==
  /\ \A errors, root, version, meaning :
       Contract!SemanticResult(errors, root, version, meaning)
         = SemanticResult(errors, root, version, meaning)
  /\ \A errors, root : Contract!Result(errors, root) = Result(errors, root)
  /\ Contract!NoResult = NoResult /\ Contract!Nowhere = Nowhere
  /\ \A text : Contract!ScanErrorPlace(text) = ScanErrorPlace(text)
BY DEF SemanticResult, Result, NoResult, Nowhere, ScanErrorPlace, InVersion,
       Contract!SemanticResult, Contract!Result, Contract!NoResult, Contract!Nowhere,
       Contract!ScanErrorPlace, Contract!InVersion

LEMMA SameReplies ==
  /\ \A what : Contract!Thrown(what) = Thrown(what)
  /\ Contract!NoReply = NoReply /\ Contract!NoCall = NoCall
  /\ \A c, r : Contract!ReplyTo(c, r) = ReplyTo(c, r)
<1>1. \A kind, r, what : Contract!Reply(kind, r, what) = Reply(kind, r, what)
  BY DEF Reply, Contract!Reply
<1>2. \A what : Contract!Thrown(what) = Thrown(what)
  BY <1>1, SameResults DEF Thrown, Contract!Thrown
<1>3. Contract!NoReply = NoReply /\ Contract!NoCall = NoCall
  BY <1>2 DEF NoReply, NoCall, Contract!NoReply, Contract!NoCall
<1>4. \A c, r : Contract!ReplyTo(c, r) = ReplyTo(c, r)
  BY <1>1, <1>2, SameResults DEF ReplyTo, Tree, Errors, Contract!ReplyTo, Contract!Tree, Contract!Errors
<1>5. QED
  BY <1>2, <1>3, <1>4

LEMMA SameText == \A c : Contract!TextOf(c) = TextOf(c)
BY DEF TextOf, Rest, Contract!TextOf

(* More texts account for more replies.                                    *)
LEMMA ReadableGrows ==
  ASSUME NEW S, NEW T, S \subseteq T
  PROVE  Contract!Readable(S) \subseteq Contract!Readable(T) /\ S \subseteq Contract!Readable(S)
BY DEF Contract!Readable

-----------------------------------------------------------------------------
(* The replies that the contract allows, one cause after the other.        *)
LEMMA RefusedInScan ==
  ASSUME NEW c, NEW v, c.op # "parse", Contract!Unversioned(c, v), NEW b
  PROVE  ReplyTo(c, Contract!Refusal(v)) \in Contract!RepliesTo(c, v, b)
BY SameReplies DEF Contract!RepliesTo

LEMMA FileGone ==
  ASSUME NEW c, NEW v, ~Contract!Unversioned(c, v)
  PROVE  Contract!Gone(c) \in Contract!RepliesTo(c, v, Missing)
BY DEF Contract!RepliesTo

LEMMA ParseReplied ==
  ASSUME NEW c, NEW v, ~Contract!Unversioned(c, v), NEW b, b # Missing,
         NEW r \in Parsed[c.dialect][b], c.op = "parse" \/ r.errors # <<>>
  PROVE  ReplyTo(c, r) \in Contract!RepliesTo(c, v, b)
<1>1. ReplyTo(c, r) \in Contract!Understood(c, r)
  BY SameReplies DEF Contract!Understood
<1>2. QED
  BY <1>1 DEF Contract!RepliesTo

LEMMA AnalysisReplied ==
  ASSUME NEW c, NEW v, ~Contract!Unversioned(c, v), NEW b, b # Missing,
         NEW r \in Parsed[c.dialect][b], c.op # "parse", r.errors = <<>>,
         NEW a \in Analyzed[c.dialect][r.root]
  PROVE  Contract!Concluded(c, r, a) \in Contract!RepliesTo(c, v, b)
<1>1. Contract!Concluded(c, r, a) \in Contract!Understood(c, r)
  BY DEF Contract!Understood
<1>2. QED
  BY <1>1 DEF Contract!RepliesTo

-----------------------------------------------------------------------------
(* What the texts seen account for, more texts account for.                *)
LEMMA Kept ==
  ASSUME call' = call, result' = result, seen \subseteq seen'
  PROVE  /\ Admitted => Admitted'
         /\ Deserved => Deserved'
         /\ \A b \in Contract!Readable(seen) \cap Texts :
              ParsedFrom(b) => b \in Contract!Readable(seen)' \cap Texts /\ ParsedFrom(b)'
<1>1. Contract!Readable(seen) \subseteq Contract!Readable(seen')
  BY ReadableGrows
<1>2. Admitted => Admitted'
  BY DEF Admitted
<1>3. Deserved => Deserved'
  BY <1>1 DEF Deserved
<1>4. QED
  BY <1>1, <1>2, <1>3 DEF ParsedFrom

LEMMA InitStep == Init => Provenance /\ Contract!Init
<1> SUFFICES ASSUME Init PROVE Provenance /\ Contract!Init
  OBVIOUS
<1>1. Provenance
  BY DEF Init, Provenance
<1>2. Contract!Init
  BY SameReplies DEF Init, Contract!Init
<1>3. QED
  BY <1>1, <1>2

LEMMA WriteStep ==
  ASSUME IInv, Provenance, NEW text \in FileTexts, Write(text)
  PROVE  Provenance' /\ Contract!Write(text)
<1>1. /\ call' = call /\ result' = result /\ phase' = phase /\ opened' = opened
      /\ stream' = stream /\ file' = text
      /\ seen' = IF phase # "idle" /\ FromPath THEN seen \cup {text} ELSE seen
  BY DEF Write
<1>2. seen \subseteq seen'
  BY <1>1
<1>3. phase' # "idle" /\ FromPath' => file' \in seen'
  BY <1>1 DEF FromPath
<1>4. phase' \in {"version", "open"} => TextOf(call)' \in seen'
  <2>1. CASE FromPath
    BY <1>1, <2>1 DEF TextOf, FromPath
  <2>2. CASE ~FromPath
    BY <1>1, <1>2, <2>2, CallFields DEF IInv, TypeOK, TextOf, Rest, FromPath, Provenance
  <2>3. QED
    BY <2>1, <2>2
<1>5. Provenance'
  BY <1>1, <1>2, <1>3, <1>4, Kept DEF Provenance
<1>6. Contract!Write(text)
  BY DEF Write, Contract!Write, FromPath
<1>7. QED
  BY <1>5, <1>6

LEMMA RewindStep ==
  ASSUME Provenance, RewindStream
  PROVE  Provenance' /\ Contract!RewindStream
<1>1. phase = "idle" /\ phase' = "idle"
  BY DEF RewindStream
<1>2. Provenance'
  BY <1>1 DEF Provenance
<1>3. Contract!RewindStream
  BY DEF RewindStream, Contract!RewindStream
<1>4. QED
  BY <1>2, <1>3

LEMMA BeginStep ==
  ASSUME IInv, NEW c \in Calls, Begin(c)
  PROVE  Provenance' /\ Contract!Ask(c)
<1>1. /\ phase = "idle" /\ call' = c /\ file' = file /\ stream' = stream
      /\ seen' = {TextOf(c)} /\ reply' = NoReply
      /\ phase' = IF c.op = "parse" THEN "open" ELSE "version"
  BY DEF Begin
<1>2. TextOf(call)' = TextOf(c)
  BY <1>1 DEF TextOf, Rest
<1>3. FromPath' => file' \in seen'
  BY <1>1 DEF FromPath, TextOf
<1>4. phase' = "open" => Admitted'
  BY <1>1 DEF Admitted, Contract!Unversioned
<1>5. Provenance'
  BY <1>1, <1>2, <1>3, <1>4 DEF Provenance
<1>6. Contract!Ask(c)
  BY <1>1, SameText, SameReplies DEF Contract!Ask
<1>7. QED
  BY <1>5, <1>6

-----------------------------------------------------------------------------
(* While a call is served the contract sees no more than the stream move.  *)
Within == [Contract!Consume]_Contract!vars

LEMMA StreamMoves ==
  ASSUME IInv, phase # "idle", phase' # "idle",
         UNCHANGED <<file, call, seen, reply>>,
         \/ UNCHANGED stream
         \/ FromStream /\ \E at_end \in BOOLEAN : stream' = [stream EXCEPT !.at_end = at_end]
  PROVE  Within
<1>1. CASE UNCHANGED stream
  BY <1>1 DEF Within, Contract!vars
<1>2. CASE FromStream /\ \E at_end \in BOOLEAN : stream' = [stream EXCEPT !.at_end = at_end]
  BY <1>2 DEF Within, Contract!Consume, FromStream
<1>3. QED
  BY <1>1, <1>2

LEMMA VersionUnreadableStep ==
  ASSUME IInv, Provenance, VersionUnreadable
  PROVE  Provenance' /\ Within
<1>. DEFINE v == TextOf(call)
<1>1. /\ phase = "version" /\ phase' = "reply" /\ call.op # "parse" /\ v \in seen
      /\ UNCHANGED <<file, call, seen, reply>>
      /\ result' = Result(<<ScanErrorPlace(v)>>, Missing)
  BY DEF VersionUnreadable, Refuse, Provenance
<1>2. ~Contract!Stating(v)
  BY DEF VersionUnreadable, VersionIn, Contract!Stating
<1>3. Contract!Unversioned(call, v) /\ Contract!Refusal(v) = result'
  BY <1>1, <1>2, SameResults DEF Contract!Unversioned, Contract!Refusal
<1>4. Deserved'
  BY <1>1, <1>3, RefusedInScan, ReadableGrows DEF Deserved
<1>5. FromPath' => file' \in seen'
  BY <1>1 DEF Provenance, FromPath
<1>6. Provenance'
  BY <1>1, <1>4, <1>5 DEF Provenance
<1>7. UNCHANGED stream \/ (FromStream /\ stream' = [stream EXCEPT !.at_end = TRUE])
  BY DEF VersionUnreadable, AfterScan
<1>8. Within
  BY <1>1, <1>7, StreamMoves
<1>9. QED
  BY <1>6, <1>8

LEMMA VersionReadStep ==
  ASSUME IInv, Provenance, VersionRead
  PROVE  Provenance' /\ Within
<1>. DEFINE v == TextOf(call)
<1>1. /\ phase = "version" /\ call.op # "parse" /\ v \in seen
      /\ UNCHANGED <<file, call, seen, reply>>
  BY DEF VersionRead, Provenance
<1>2. Contract!Stating(v) /\ VersionIn(v) = Stated[v]
  BY DEF VersionRead, VersionIn, Contract!Stating
<1>3. FromPath' => file' \in seen'
  BY <1>1 DEF Provenance, FromPath
<1>4. UNCHANGED stream \/ (FromStream /\ stream' = [stream EXCEPT !.at_end = FALSE])
  <2>1. CASE FromStream
    BY <2>1 DEF VersionRead, AfterScan
  <2>2. CASE ~FromStream
    BY <2>2 DEF VersionRead
  <2>3. QED
    BY <2>1, <2>2
<1>5. CASE Exceeds(VersionIn(v), call.api)
  <2>1. phase' = "reply" /\ result' = Result(<<Nowhere>>, Missing)
    BY <1>5 DEF VersionRead, Refuse
  <2>2. Contract!Unversioned(call, v) /\ Contract!Refusal(v) = result'
    BY <1>1, <1>2, <1>5, <2>1, SameOrder, SameResults DEF Contract!Unversioned, Contract!Refusal
  <2>3. Deserved'
    BY <1>1, <2>2, RefusedInScan, ReadableGrows DEF Deserved
  <2>4. Provenance'
    BY <1>3, <2>1, <2>3 DEF Provenance
  <2>5. QED
    BY <1>1, <1>4, <2>1, <2>4, StreamMoves
<1>6. CASE ~Exceeds(VersionIn(v), call.api)
  <2>1. phase' = "open"
    BY <1>6 DEF VersionRead
  <2>2. Admitted'
    BY <1>1, <1>2, <1>6, SameOrder DEF Admitted, Contract!Unversioned
  <2>3. FromStream => stream.at_end = FALSE
    <3>1. CASE FromStream /\ stream.at_end
      BY <3>1, FrontendAssumption DEF VersionRead, VersionIn, TextOf, Rest, FromStream
    <3>2. stream.at_end \in BOOLEAN
      BY DEF IInv, TypeOK
    <3>3. QED
      BY <3>1, <3>2
  <2>4. stream' = stream
    BY <1>4, <2>3 DEF IInv, TypeOK
  <2>5. TextOf(call)' \in seen'
    <3>1. TextOf(call)' = TextOf(call)
      BY <1>1, <2>4 DEF TextOf, Rest
    <3>2. QED
      BY <1>1, <3>1
  <2>6. Provenance'
    BY <1>3, <2>1, <2>2, <2>5 DEF Provenance
  <2>7. QED
    BY <1>1, <1>4, <2>1, <2>6, StreamMoves
<1>7. QED
  BY <1>5, <1>6

-----------------------------------------------------------------------------
(* A file that is not there, before the parser has opened it.              *)
LEMMA OpenMissingStep ==
  ASSUME IInv, Provenance, OpenMissing
  PROVE  Provenance' /\ (Contract!Answer \/ Within)
<1>1. /\ phase = "open" /\ Missing \in seen
      /\ UNCHANGED <<file, stream, call, seen>>
  BY DEF OpenMissing, Provenance
<1>2. Missing \in Contract!Readable(seen)
  BY <1>1, ReadableGrows
<1>3. PICK v \in seen : ~Contract!Unversioned(call, v)
  BY <1>1 DEF Provenance, Admitted
<1>4. Contract!Gone(call) \in Contract!RepliesTo(call, v, Missing)
  BY <1>3, FileGone
<1>5. CASE call.dialect = "v3x"
  <2>1. reply' = Contract!Gone(call) /\ phase' = "idle"
    BY <1>5, SameReplies DEF OpenMissing, Contract!Gone
  <2>2. Contract!Answer
    BY <1>1, <1>2, <1>3, <1>4, <2>1 DEF Contract!Answer
  <2>3. Provenance'
    BY <2>1 DEF Provenance
  <2>4. QED
    BY <2>2, <2>3
<1>6. CASE call.dialect # "v3x"
  <2>1. phase' = "reply" /\ result' = Result(<<Nowhere>>, Missing) /\ reply' = reply
    BY <1>6 DEF OpenMissing, Refuse
  <2>2. ReplyTo(call, result') = Contract!Gone(call)
    BY <1>6, <2>1, SameResults, SameReplies DEF Contract!Gone
  <2>3. Deserved'
    BY <1>1, <1>2, <1>3, <1>4, <2>2 DEF Deserved
  <2>4. FromPath' => file' \in seen'
    BY <1>1 DEF Provenance, FromPath
  <2>5. Provenance'
    BY <2>1, <2>3, <2>4 DEF Provenance
  <2>6. QED
    BY <1>1, <2>1, <2>5, StreamMoves
<1>7. QED
  BY <1>5, <1>6

LEMMA OpenSourceStep ==
  ASSUME IInv, Provenance, OpenSource
  PROVE  Provenance' /\ Within
<1>1. /\ phase = "open" /\ phase' = "parse" /\ opened' = TextOf(call) /\ TextOf(call) \in seen
      /\ UNCHANGED <<file, stream, call, result, seen, reply>>
  BY DEF OpenSource, Provenance
<1>2. Admitted'
  BY <1>1, Kept DEF Provenance
<1>3. FromPath' => file' \in seen'
  BY <1>1 DEF Provenance, FromPath
<1>4. Provenance'
  BY <1>1, <1>2, <1>3 DEF Provenance
<1>5. QED
  BY <1>1, <1>4, StreamMoves

(* What a parser reads its source had, or is the end of a file now gone.   *)
LEMMA ParserTextReadable ==
  ASSUME IInv, Provenance, phase = "parse"
  PROVE  ParserText \in Contract!Readable(seen) \cap Texts
<1>1. opened \in seen \cap Texts
  BY DEF IInv, TextsKnown, Provenance
<1>2. CASE ~FromPath \/ HoldsFile
  BY <1>1, <1>2, ReadableGrows DEF ParserText
<1>3. CASE FromPath /\ ~HoldsFile
  <2>1. file \in seen /\ file \in Texts \cup {Missing}
    BY <1>3 DEF IInv, TypeOK, Provenance
  <2>2. QED
    BY <1>3, <2>1, Inputs DEF ParserText, Contract!Readable
<1>4. QED
  BY <1>2, <1>3

LEMMA ParseSourceStep ==
  ASSUME IInv, Provenance, ParseSource
  PROVE  Provenance' /\ Within
<1>1. /\ phase = "parse" /\ phase' \in {"reply", "analyze"}
      /\ phase' = "reply" => call.op = "parse" \/ result'.errors # <<>>
      /\ phase' = "analyze" => call.op # "parse" /\ result'.errors = <<>>
      /\ UNCHANGED <<file, call, seen, reply>>
      /\ result' \in Parsed[call.dialect][ParserText]
  BY DEF ParseSource
<1>2. ParserText \in Contract!Readable(seen) \cap Texts /\ ParserText # Missing
  BY <1>1, ParserTextReadable, Inputs
<1>3. PICK v \in seen : ~Contract!Unversioned(call, v)
  BY <1>1 DEF Provenance, Admitted
<1>4. phase' = "reply" => Deserved'
  BY <1>1, <1>2, <1>3, ParseReplied DEF Deserved
<1>5. phase' = "analyze" => Admitted'
  BY <1>1, <1>3 DEF Admitted
<1>6. phase' = "analyze" => \E b \in Contract!Readable(seen)' \cap Texts : ParsedFrom(b)'
  BY <1>1, <1>2 DEF ParsedFrom
<1>7. FromPath' => file' \in seen'
  BY <1>1 DEF Provenance, FromPath
<1>8. Provenance'
  BY <1>1, <1>4, <1>5, <1>6, <1>7 DEF Provenance
<1>9. UNCHANGED stream \/ (FromStream /\ stream' = [stream EXCEPT !.at_end = TRUE])
  BY DEF ParseSource
<1>10. QED
  BY <1>1, <1>8, <1>9, StreamMoves

LEMMA AnalyzeTreeStep ==
  ASSUME IInv, Provenance, AnalyzeTree
  PROVE  Provenance' /\ (Contract!Answer \/ Within)
<1>1. /\ phase = "analyze" /\ call.op # "parse" /\ result.errors = <<>>
      /\ UNCHANGED <<file, stream, call, seen>>
  BY DEF AnalyzeTree, Provenance
<1>2. PICK a \in Analyzed[call.dialect][result.root] :
        ConcludeAnalysis(a, AnalysisErrors(a, call.api))
  BY DEF AnalyzeTree
<1>3. PICK v \in seen : ~Contract!Unversioned(call, v)
  BY <1>1 DEF Provenance, Admitted
<1>4. PICK b \in Contract!Readable(seen) \cap Texts : ParsedFrom(b)
  BY <1>1 DEF Provenance
<1>5. Contract!Concluded(call, result, a) \in Contract!RepliesTo(call, v, b)
  BY <1>1, <1>3, <1>4, AnalysisReplied, Inputs DEF ParsedFrom
<1>. DEFINE errors == AnalysisErrors(a, call.api)
<1>6. Contract!Refused(call, a) \o a.errors = errors
  BY SameOrder DEF AnalysisErrors, VersionErrors, Contract!Refused
<1>7. Contract!Concluded(call, result, a) =
        IF ~a.ends \/ (errors = <<>> /\ ~a.whole) THEN Thrown("internal")
        ELSE ReplyTo(call, SemanticResult(errors, result.root, a.version, a.meaning))
  BY <1>6, SameResults, SameReplies DEF Contract!Concluded
<1>. HIDE DEF errors
<1>8. CASE ~a.ends \/ (errors = <<>> /\ ~a.whole)
  <2>1. reply' = Contract!Concluded(call, result, a) /\ phase' = "idle"
    BY <1>2, <1>7, <1>8 DEF ConcludeAnalysis, errors
  <2>2. Contract!Answer
    BY <1>1, <1>5, <2>1 DEF Contract!Answer
  <2>3. Provenance'
    BY <2>1 DEF Provenance
  <2>4. QED
    BY <2>2, <2>3
<1>9. CASE ~(~a.ends \/ (errors = <<>> /\ ~a.whole))
  <2>1. /\ phase' = "reply" /\ reply' = reply
        /\ ReplyTo(call, result') = Contract!Concluded(call, result, a)
    BY <1>2, <1>7, <1>9 DEF ConcludeAnalysis, errors
  <2>2. Deserved'
    BY <1>1, <1>5, <2>1 DEF Deserved
  <2>3. FromPath' => file' \in seen'
    BY <1>1 DEF Provenance, FromPath
  <2>4. Provenance'
    BY <2>1, <2>2, <2>3 DEF Provenance
  <2>5. QED
    BY <1>1, <2>1, <2>4, StreamMoves
<1>10. QED
  BY <1>8, <1>9

LEMMA AnswerStep ==
  ASSUME Provenance, Answer
  PROVE  Provenance' /\ Contract!Answer
<1>1. /\ phase = "reply" /\ phase' = "idle" /\ reply' = ReplyTo(call, result)
      /\ UNCHANGED <<file, stream, call, seen>>
  BY DEF Answer
<1>2. Contract!Answer
  BY <1>1 DEF Provenance, Deserved, Contract!Answer
<1>3. Provenance'
  BY <1>1 DEF Provenance
<1>4. QED
  BY <1>2, <1>3

-----------------------------------------------------------------------------
LEMMA StutterStep ==
  ASSUME Provenance, UNCHANGED vars
  PROVE  Provenance' /\ UNCHANGED Contract!vars
<1>1. /\ UNCHANGED <<file, stream, call, phase, opened, result, reply, seen>>
      /\ TextOf(call)' = TextOf(call) /\ (FromPath' <=> FromPath)
  BY DEF vars, TextOf, Rest, FromPath
<1>2. Provenance'
  BY <1>1, Kept DEF Provenance
<1>3. UNCHANGED Contract!vars
  BY <1>1 DEF Contract!vars
<1>4. QED
  BY <1>2, <1>3

(* Every step is a step of the contract or none, and keeps what is at hand *)
(* accounted for.                                                          *)
THEOREM NextStep ==
  IInv /\ Provenance /\ [Next]_vars => Provenance' /\ [Contract!Next]_Contract!vars
<1> SUFFICES ASSUME IInv, Provenance, [Next]_vars
             PROVE  Provenance' /\ [Contract!Next]_Contract!vars
  OBVIOUS
<1>. DEFINE Goal == Provenance' /\ [Contract!Next]_Contract!vars
<1>1. Within => [Contract!Next]_Contract!vars
  BY DEF Within, Contract!Next
<1>2. Contract!Answer => [Contract!Next]_Contract!vars
  BY DEF Contract!Next
<1>3. ASSUME NEW text \in FileTexts, Write(text) PROVE Goal
  BY <1>3, WriteStep DEF Contract!Next
<1>4. CASE RewindStream
  BY <1>4, RewindStep DEF Contract!Next
<1>5. ASSUME NEW c \in Calls, Begin(c) PROVE Goal
  BY <1>5, BeginStep DEF Contract!Next
<1>6. CASE VersionUnreadable
  BY <1>1, <1>6, VersionUnreadableStep
<1>7. CASE VersionRead
  BY <1>1, <1>7, VersionReadStep
<1>8. CASE OpenMissing
  BY <1>1, <1>2, <1>8, OpenMissingStep
<1>9. CASE OpenSource
  BY <1>1, <1>9, OpenSourceStep
<1>10. CASE ParseSource
  BY <1>1, <1>10, ParseSourceStep
<1>11. CASE AnalyzeTree
  BY <1>1, <1>2, <1>11, AnalyzeTreeStep
<1>12. CASE Answer
  BY <1>2, <1>12, AnswerStep
<1>13. CASE UNCHANGED vars
  BY <1>13, StutterStep
<1>14. QED
  BY <1>3, <1>4, <1>5, <1>6, <1>7, <1>8, <1>9, <1>10, <1>11, <1>12, <1>13 DEF Next, Serve

(* Whoever writes the file and wherever streams are left in between, the   *)
(* parse and analyze functions give no reply but one of the contract: one  *)
(* that the texts the source had while the call was served account for.    *)
THEOREM SafetyImplemented == Spec => Contract!Safety
<1>1. Init => Provenance /\ Contract!Init
  BY InitStep
<1>2. IInv /\ Provenance /\ [Next]_vars => Provenance' /\ [Contract!Next]_Contract!vars
  BY NextStep
<1>3. QED
  BY <1>1, <1>2, Invariant, PTL DEF Spec, Contract!Safety
=============================================================================
