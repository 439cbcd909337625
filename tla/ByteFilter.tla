----------------------------- MODULE ByteFilter -----------------------------
(***************************************************************************)
(* Terminal::advance (crates/core/src/term.rs): what happens to a chunk of *)
(* output on its way to the VT parser.  A codepoint cut by the end of the  *)
(* chunk is held back; Kitty graphics bodies (ESC _ G ... ST) are taken    *)
(* out, for vte would discard them; the rest goes to vte in batches.       *)
(*                                                                         *)
(* A byte is a member of a small alphabet: "esc", "_", "G", "\\" and "bel" *)
(* as in the code; "lead2" and "lead3" begin a codepoint of two and three  *)
(* bytes, "cont" continues one; "S", "s" and "?" after an ESC stand for    *)
(* the sequences that begin and end a synchronized update and that ask     *)
(* the terminal a question; any other byte is text.  The loop of           *)
(* advance_complete copies runs of plain bytes at once and hands a chunk   *)
(* without ESC to vte directly: both are FilterByte byte by byte.          *)
(***************************************************************************)
EXTENDS Integers, SequencesExt

CONSTANTS
  KITTY_APC_MAX_BYTES,  \* the longest Kitty body that is kept
  PTY_RESPONSE_MAX      \* how many replies wait for the UI at most

ASSUME LimitsAssumption ==
  KITTY_APC_MAX_BYTES \in Nat \ {0} /\ PTY_RESPONSE_MAX \in Nat

\* The filter and, of the screen, what the session looks at.  log: what has
\* reached the parser and the Kitty decoder, in order; split: history, a call
\* of the parser has ended inside a codepoint.
Terminal_new ==
  [utf8_pending |-> <<>>, apc_state |-> "Normal", is_kitty |-> FALSE,
   seen_first |-> FALSE, apc_accum |-> <<>>, passthrough |-> <<>>,
   vteEsc |-> FALSE, sync_output |-> FALSE, replies |-> 0,
   log |-> <<>>, split |-> FALSE]

\* the only element; {F(u) : u \in {e}} has F of the value of e
ValueOf(S) == CHOOSE v \in S : TRUE

\* op on one byte after the other
OnEach(op(_, _), t, bytes) ==
  LET after[i \in 0 .. Len(bytes)] ==
        IF i = 0 THEN t ELSE ValueOf({op(u, bytes[i]) : u \in {after[i - 1]}})
  IN after[Len(bytes)]

-----------------------------------------------------------------------------
(* Codepoints.                                                             *)

IsCont(b) == b = "cont"
Needed(lead) == CASE lead = "lead2" -> 2 [] lead = "lead3" -> 3 [] OTHER -> 1

EndsInside(bytes) ==
  \E i \in 1 .. Len(bytes) : i + Needed(bytes[i]) - 1 > Len(bytes)

\* how many bytes of the chunk are before a codepoint that it cuts
utf8_tail_boundary(bytes) ==
  LET n == Len(bytes)
      cont == Max({k \in 0 .. IF n < 3 THEN n ELSE 3 :
                     \A i \in n - k + 1 .. n : IsCont(bytes[i])})
  IN IF cont < n /\ Needed(bytes[n - cont]) > cont + 1 THEN n - cont - 1 ELSE n

-----------------------------------------------------------------------------
(* The VT parser, as far as this module needs it.                          *)

\* the reply is dropped when the queue is full
push_pty_response(t) ==
  IF t.replies + 1 > PTY_RESPONSE_MAX THEN t ELSE [t EXCEPT !.replies = @ + 1]

\* vte takes a byte (the states of vte are external)
ParserByte(t, b) ==
  LET u == [t EXCEPT !.log = Append(@, <<b>>), !.vteEsc = b = "esc"] IN
  CASE t.vteEsc /\ b = "S" -> [u EXCEPT !.sync_output = TRUE]
    [] t.vteEsc /\ b = "s" -> [u EXCEPT !.sync_output = FALSE]
    [] t.vteEsc /\ b = "?" -> push_pty_response(u)
    [] OTHER -> u

\* one call of the parser with the batch
Flushed(t) ==
  [OnEach(ParserByte, t, t.passthrough) EXCEPT
     !.passthrough = <<>>,
     !.split = @ \/ EndsInside(t.passthrough)]

-----------------------------------------------------------------------------
(* The APC filter.                                                         *)

Kept(t, b) ==
  IF Len(t.apc_accum) < KITTY_APC_MAX_BYTES
  THEN [t EXCEPT !.apc_accum = Append(@, b)] ELSE t

\* the Kitty decoder gets the body of a Kitty APC; any other is swallowed
finish_apc(t, kitty) ==
  [t EXCEPT !.apc_accum = <<>>, !.apc_state = "Normal",
            !.log = IF kitty THEN Append(@, <<"kitty">> \o t.apc_accum) ELSE @]

InNormal(t, b) ==
  IF b = "esc" THEN [t EXCEPT !.apc_state = "Esc"]
  ELSE [t EXCEPT !.passthrough = Append(@, b)]

EscWithoutFlush(t, b) ==                                          \* mutant
  IF b = "_" THEN [t EXCEPT !.apc_accum = <<>>, !.apc_state = "Apc",
                            !.is_kitty = FALSE, !.seen_first = FALSE]
  ELSE IF b = "esc" THEN [t EXCEPT !.passthrough = Append(@, "esc")]
  ELSE [t EXCEPT !.passthrough = @ \o <<"esc", b>>, !.apc_state = "Normal"]

\* after an ESC that is held back: the text before an APC goes to the parser
\* before the APC does anything
InEsc(t, b) ==
  IF b = "_" THEN [Flushed(t) EXCEPT !.apc_accum = <<>>, !.apc_state = "Apc",
                                     !.is_kitty = FALSE, !.seen_first = FALSE]
  ELSE IF b = "esc" THEN [t EXCEPT !.passthrough = Append(@, "esc")]
  ELSE [t EXCEPT !.passthrough = @ \o <<"esc", b>>, !.apc_state = "Normal"]

InApc(t, b) ==
  IF b = "bel" THEN finish_apc(t, t.is_kitty)
  ELSE IF b = "esc" THEN [t EXCEPT !.apc_state = "ApcEsc"]
  ELSE LET kitty == IF t.seen_first THEN t.is_kitty ELSE b = "G" IN
       [(IF kitty THEN Kept(t, b) ELSE t) EXCEPT !.is_kitty = kitty, !.seen_first = TRUE]

InApcEsc(t, b) ==
  LET was_kitty == t.apc_accum # <<>> /\ Head(t.apc_accum) = "G" IN
  IF b \in {"\\", "bel"} THEN finish_apc(t, was_kitty)
  ELSE IF b = "esc" THEN t
  ELSE [(IF was_kitty THEN Kept(t, b) ELSE t)
          EXCEPT !.apc_state = "Apc", !.is_kitty = was_kitty, !.seen_first = TRUE]

FilterByte(t, b) ==
  CASE t.apc_state = "Normal" -> InNormal(t, b)
    [] t.apc_state = "Esc"    -> InEsc(t, b)
    [] t.apc_state = "Apc"    -> InApc(t, b)
    [] t.apc_state = "ApcEsc" -> InApcEsc(t, b)

\* a chunk of output, behind the bytes an earlier one left over, up to the
\* last boundary of a codepoint; then the rest of the batch is flushed
advance(t, bytes) ==
  LET combined == t.utf8_pending \o bytes
      cut == utf8_tail_boundary(combined)
      filtered == OnEach(FilterByte,
                         [t EXCEPT !.utf8_pending = SubSeq(combined, cut + 1, Len(combined))],
                         SubSeq(combined, 1, cut))
  IN ValueOf({Flushed(u) : u \in {filtered}})
=============================================================================
