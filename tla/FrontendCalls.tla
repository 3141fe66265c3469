---------------------------- MODULE FrontendCalls ----------------------------
(***************************************************************************)
(* What callers ask of libqasm and what they get: parse or analyze a file, *)
(* a string or, in version 1 only, a stream (v1x/cqasm.hpp, v3x/cqasm.hpp, *)
(* the analyze and parse functions of both analyzers).                     *)
(*                                                                         *)
(* A text is known by what its scanner, parser and analyzer make of it.    *)
(***************************************************************************)
EXTENDS Version

CONSTANTS
  Texts,       \* contents of files, strings and streams
  Missing,     \* no file at the path
  EndOfFile,   \* the text without characters
  Stated,      \* text -> version its version statement gives, <<>> if none is read
  Parsed,      \* dialect -> text -> set of possible parse results [errors, root]
  Analyzed,    \* dialect -> text of the tree -> set of possible analyses
               \* [version, at, errors, ends, whole, meaning]
  Calls        \* the calls made: [dialect, source, op, api, data]

(* An error about a file that is not there or a version that is too new    *)
(* has no place; one of the version scanner has one.                       *)
Nowhere == <<>>
InVersion == <<<<>>, "version">>

ScanErrorPlace(text) == IF text = Missing THEN Nowhere ELSE InVersion

Dialects == {"v1x", "v3x"}
CallType == [dialect : Dialects, source : {"path", "string", "stream"},
             op : {"parse", "analyze", "unwrap"}, api : Version, data : Texts]

IsList(s) == s \in Seq({s[i] : i \in DOMAIN s})

ASSUME FrontendAssumption ==
  /\ EndOfFile \in Texts /\ Missing \notin Texts /\ Stated[EndOfFile] = <<>>
  /\ Stated \in [Texts -> Version]
  /\ Calls \subseteq CallType
  /\ \A d \in Dialects, t \in Texts : Parsed[d][t] # {}
  /\ \A d \in Dialects, t \in Texts : \A r \in Parsed[d][t] :
       r.errors = <<>> => r.root \in Texts
  /\ \A d \in Dialects, t \in Texts : \A a \in Analyzed[d][t] :
       a.version \in Version /\ IsList(a.errors)

(* The result of a call: a tree, or errors without one or with a part of   *)
(* one.  version and meaning are those of a semantic tree.  A reply is     *)
(* what the caller sees of it; what says why an exception was thrown.      *)
SemanticResult(errors, root, version, meaning) ==
  [errors |-> errors, root |-> root, version |-> version, meaning |-> meaning]

Result(errors, root) == SemanticResult(errors, root, <<>>, <<>>)
NoResult == Result(<<>>, Missing)

Reply(kind, result, what) ==
  [kind |-> kind, what |-> what, errors |-> result.errors, root |-> result.root,
   version |-> result.version, meaning |-> result.meaning]

Tree(result)   == Reply("tree", result, "")
Errors(errors) == Reply("errors", Result(errors, Missing), "")
Thrown(what)   == Reply("thrown", NoResult, what)

NoReply  == Thrown("")
NoCall   == [dialect |-> "v3x", source |-> "string", op |-> "parse", api |-> <<>>,
             data |-> EndOfFile]

(* unwrap throws when there are errors; otherwise errors are returned.     *)
ReplyTo(call, result) ==
  IF result.errors = <<>>       THEN Tree(result)
  ELSE IF call.op = "unwrap"    THEN Thrown("failed")
  ELSE                               Errors(result.errors)
=============================================================================
