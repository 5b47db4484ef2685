-------------------------- MODULE ReasoningFilter --------------------------
(***************************************************************************)
(* What a visitor reads of a streamed answer: ReasoningFilter and          *)
(* LangChainChat.stream of services/ai/base.py.  The model wrote one text; *)
(* it arrives in pieces cut anywhere, inside a tag too, and the spans      *)
(* between the tags must not be shown.                                     *)
(***************************************************************************)
EXTENDS Integers, Sequences, SequencesExt, FiniteSetsExt

CONSTANTS
    Letters,       \* the characters of a text
    ThinkOpen,     \* _THINK_OPEN, a sequence of letters
    ThinkClose,    \* _THINK_CLOSE
    MaxDelta,      \* bound on the length of a delta
    MaxText        \* bound on the length of the text

ASSUME FilterAssumption ==
    /\ ThinkOpen \in Seq(Letters) \ {<<>>}
    /\ ThinkClose \in Seq(Letters) \ {<<>>}
    /\ MaxDelta \in Nat

VARIABLES
    text,          \* ghost: what has arrived
    held,          \* self._buffer
    inside,        \* self._inside
    shown,         \* what has been yielded
    ended          \* the stream is over: "no", "flushed", "failed"

filterVars == <<text, held, inside, shown, ended>>

FilterInit ==
    /\ text = <<>>
    /\ held = <<>>
    /\ inside = FALSE
    /\ shown = <<>>
    /\ ended = "no"

----------------------------------------------------------------------------
\* str.find: the places where `tag' occurs.
Places(s, tag) ==
    {i \in 1 .. Len(s) - Len(tag) + 1 : SubSeq(s, i, i + Len(tag) - 1) = tag}
Upto(s, tag) == SubSeq(s, 1, Min(Places(s, tag)) - 1)
After(s, tag) == SubSeq(s, Min(Places(s, tag)) + Len(tag), Len(s))

\* Mutant: nothing is held back, so that a tag has to arrive whole.
NoTagSuffix(s, tag) == <<>>

\* The longest tail of `s' that is a proper prefix of `tag'.
PartialTagSuffix(s, tag) ==
    LET size == Max({n \in 0 .. Min({Len(tag) - 1, Len(s)}) : IsSuffix(SubSeq(tag, 1, n), s)})
    IN  SubSeq(s, Len(s) - size + 1, Len(s))

\* On either side of a tag: the one that is looked for, and what is seen of what precedes it.
Tag(within) == IF within THEN ThinkClose ELSE ThinkOpen
Seen(within, s) == IF within THEN <<>> ELSE s

\* The loop of feed: what it lets out of a buffer, what stays there, on which side it ends.
Drain[buffer \in Seq(Letters)] ==
    [within \in BOOLEAN |->
        LET tag == Tag(within)
            kept == PartialTagSuffix(buffer, tag)
            rest == Drain[After(buffer, tag)][~within]
        IN  IF Places(buffer, tag) # {}
            THEN [rest EXCEPT !.out = Seen(within, Upto(buffer, tag)) \o @]
            ELSE [out |-> Seen(within, SubSeq(buffer, 1, Len(buffer) - Len(kept))),
                  held |-> kept,
                  inside |-> within]]

\* One chunk of the provider's stream; what it lets out is yielded.
Feed(delta) ==
    /\ ended = "no"
    /\ text' = text \o delta
    /\ LET fed == Drain[held \o delta][inside]
       IN  /\ held' = fed.held
           /\ inside' = fed.inside
           /\ shown' = shown \o fed.out
    /\ UNCHANGED ended

\* What was held back and can no longer become a tag.
Trailing == Seen(inside, held)

Flush ==
    /\ ended = "no"
    /\ ended' = "flushed"
    /\ shown' = shown \o Trailing
    /\ held' = <<>>
    /\ UNCHANGED <<text, inside>>

\* The provider raises: what was held back is never yielded.
StreamFails ==
    /\ ended = "no"
    /\ ended' = "failed"
    /\ UNCHANGED <<text, held, inside, shown>>

FilterNext ==
    \/ \E delta \in BoundedSeq(Letters, MaxDelta) :
         Len(text) + Len(delta) <= MaxText /\ Feed(delta)
    \/ Flush
    \/ StreamFails

FilterSpec == FilterInit /\ [][FilterNext]_filterVars

----------------------------------------------------------------------------
\* The text without its spans, read whole: an opening tag ends what is seen until the next
\* closing one, and for good when none follows.
Visible[s \in Seq(Letters)] ==
    IF Places(s, ThinkOpen) = {} THEN s
    ELSE LET span == After(s, ThinkOpen)
         IN  Upto(s, ThinkOpen)
             \o (IF Places(span, ThinkClose) = {} THEN <<>> ELSE Visible[After(span, ThinkClose)])

\* However the provider cuts its answer, a visitor has read the same text once it ends, the
\* one the whole answer read at once would leave; and has read no more than a beginning of it
\* before, or when the provider fails half way.
ShownIsVisible ==
    /\ ended # "failed" => (IF ended = "no" THEN shown \o Trailing ELSE shown) = Visible[text]
    /\ IsPrefix(shown, Visible[text])
=============================================================================
