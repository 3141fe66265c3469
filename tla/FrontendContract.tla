--------------------------- MODULE FrontendContract ---------------------------
(***************************************************************************)
(* What a caller may rely on: a call gets one of the replies that the      *)
(* texts its source had while it was served account for, whatever was      *)
(* asked before.  A version may be read from one of these texts and the    *)
(* tree from another.                                                      *)
(***************************************************************************)
EXTENDS FrontendCalls

CONSTANTS FileTexts, StreamTexts

VARIABLES file, stream, call, busy, seen, reply

vars == <<file, stream, call, busy, seen, reply>>

TextOf(c) ==
  CASE c.source = "path"   -> file
    [] c.source = "string" -> c.data
    [] c.source = "stream" -> IF stream.at_end THEN EndOfFile ELSE stream.text

-----------------------------------------------------------------------------
(* The reply to c when the version is read from v and the program from b.  *)
Stating(v) == v # Missing /\ Stated[v] # <<>>

Unversioned(c, v) == c.op # "parse" /\ (~Stating(v) \/ Exceeds(Stated[v], c.api))

Refusal(v) == Result(<<IF Stating(v) THEN Nowhere ELSE ScanErrorPlace(v)>>, Missing)

Gone(c) == IF c.dialect = "v3x" THEN Thrown("missing")
           ELSE ReplyTo(c, Result(<<Nowhere>>, Missing))

Refused(c, a) == IF Exceeds(a.version, c.api) THEN <<a.at>> ELSE <<>>

Concluded(c, r, a) ==
  LET errors == Refused(c, a) \o a.errors
  IN  IF ~a.ends \/ (errors = <<>> /\ ~a.whole) THEN Thrown("internal")
      ELSE ReplyTo(c, SemanticResult(errors, r.root, a.version, a.meaning))

Understood(c, r) ==
  IF c.op = "parse" \/ r.errors # <<>> THEN {ReplyTo(c, r)}
  ELSE {Concluded(c, r, a) : a \in Analyzed[c.dialect][r.root]}

RepliesTo(c, v, b) ==
  IF Unversioned(c, v)  THEN {ReplyTo(c, Refusal(v))}
  ELSE IF b = Missing   THEN {Gone(c)}
  ELSE                       UNION {Understood(c, r) : r \in Parsed[c.dialect][b]}

(* A file that vanishes under the parser reads as empty.                   *)
Readable(texts) == IF Missing \in texts THEN texts \cup {EndOfFile} ELSE texts

-----------------------------------------------------------------------------
Init ==
  /\ file \in FileTexts /\ stream \in [text : StreamTexts, at_end : {FALSE}]
  /\ call = NoCall /\ busy = FALSE /\ seen = {} /\ reply = NoReply

Write(text) ==
  /\ file' = text
  /\ seen' = IF busy /\ call.source = "path" THEN seen \cup {text} ELSE seen
  /\ UNCHANGED <<stream, call, busy, reply>>

RewindStream ==
  /\ ~busy /\ stream' = [stream EXCEPT !.at_end = FALSE]
  /\ UNCHANGED <<file, call, busy, seen, reply>>

Ask(c) ==
  /\ ~busy /\ busy' = TRUE
  /\ call' = c /\ seen' = {TextOf(c)} /\ reply' = NoReply
  /\ UNCHANGED <<file, stream>>

(* Where the stream is left is not promised.                               *)
Consume ==
  /\ busy /\ call.source = "stream"
  /\ \E at_end \in BOOLEAN : stream' = [stream EXCEPT !.at_end = at_end]
  /\ UNCHANGED <<file, call, busy, seen, reply>>

Answer ==
  /\ busy /\ busy' = FALSE
  /\ \E v \in seen, b \in Readable(seen) : reply' \in RepliesTo(call, v, b)
  /\ UNCHANGED <<file, stream, call, seen>>

Next ==
  \/ \E text \in FileTexts : Write(text)
  \/ RewindStream
  \/ \E c \in Calls : Ask(c)
  \/ Consume \/ Answer

Safety == Init /\ [][Next]_vars

(* And a call does get its reply.                                          *)
Spec == Safety /\ []<>~busy
=============================================================================
