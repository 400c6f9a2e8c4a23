---------------------------- MODULE StreamsProofs ----------------------------
(***************************************************************************)
(* Whatever the upstream sends, in whatever order and number, what the     *)
(* translators write is well formed: for any items, any content, and an    *)
(* upstream that keeps to no discipline. First the blocks of /v1/messages, *)
(* then the chunks of /v1/chat/completions.  For an upstream that keeps to *)
(* the discipline also the end is honest and the answer complete.          *)
(***************************************************************************)
EXTENDS Streams, SequenceTheorems, FiniteSetTheorems, TLAPS

-----------------------------------------------------------------------------
(***************************************************************************)
(* The invariant relates the translator's books to the client's.           *)
(***************************************************************************)
IsWire(w) == DOMAIN w = {"begun", "blocks", "got", "signed", "end", "ok", "after"}

IsTranslator(s) ==
  DOMAIN s = {"mode", "started", "finished", "blocks", "next", "hasTool", "thinking",
              "stopPending", "signature", "reasonKey", "completed", "wire"}

WireBlock == [kind : {"text", "tool", "thinking"}, item : Items \cup {NoItem},
              named : BOOLEAN, open : BOOLEAN]

\* The client has seen message_start and the end exactly if the flags say so,
\* and nothing behind an end it has not seen.
Flagged(s) ==
  /\ s.wire.ok
  /\ (s.wire.begun <=> s.started)
  /\ s.wire.end = "none" <=> ~s.finished
  /\ s.wire.after => s.finished

\* nextIndex counts the blocks the client has seen; none before message_start.
Counted(s) ==
  /\ s.next \in Nat
  /\ s.wire.blocks \in Seq(WireBlock)
  /\ Len(s.wire.blocks) = s.next
  /\ ~s.started => s.next = 0
  /\ s.reasonKey[1] \in Items \cup {NoItem}

\* Each registered block is one of the client's, open until it is stopped.
Shown(s) ==
  /\ DOMAIN s.blocks \subseteq Keys
  /\ \A k \in DOMAIN s.blocks :
       /\ s.blocks[k] \in Block
       /\ s.blocks[k].index \in 1 .. s.next
       /\ s.wire.blocks[s.blocks[k].index].kind = KindOf(k)
       /\ s.wire.blocks[s.blocks[k].index].open <=> ~s.blocks[k].stopped

Apart(s) ==
  \A k, l \in DOMAIN s.blocks : s.blocks[k].index = s.blocks[l].index => k = l

\* The thinking block is open, and there is none with thinking off.
Thinks(s) ==
  /\ s.thinking \in 0 .. s.next
  /\ s.thinking # Nowhere => /\ s.mode # "off"
                             /\ s.wire.blocks[s.thinking].open
                             /\ s.wire.blocks[s.thinking].kind = "thinking"

\* Nothing else is open.
Accounted(s) ==
  \A b \in 1 .. s.next :
    s.wire.blocks[b].open =>
      \/ b = s.thinking
      \/ \E k \in DOMAIN s.blocks : s.blocks[k].index = b /\ ~s.blocks[k].stopped

Good(s) ==
  /\ IsTranslator(s) /\ IsWire(s.wire)
  /\ Flagged(s) /\ Counted(s) /\ Shown(s) /\ Apart(s) /\ Thinks(s) /\ Accounted(s)

Started(s) == Good(s) /\ s.started

\* What the helpers other than the ends leave as it was.
SameEnds(s, r) == (s.started => r.started) /\ (r.finished <=> s.finished) /\ r.mode = s.mode

-----------------------------------------------------------------------------
(***************************************************************************)
(* The client's automaton.                                                 *)
(***************************************************************************)
LEMMA MessageStartFields ==
  ASSUME NEW w, IsWire(w)
  PROVE  /\ IsWire(MessageStart(w))
         /\ MessageStart(w).begun
         /\ MessageStart(w).blocks = w.blocks
         /\ MessageStart(w).end = w.end
         /\ MessageStart(w).after => Past(w)
         /\ w.ok /\ ~w.begun => MessageStart(w).ok
BY DEF IsWire, MessageStart

LEMMA BlockStartFields ==
  ASSUME NEW w, IsWire(w), NEW b, NEW kind, NEW item, NEW named
  PROVE  /\ IsWire(BlockStart(w, b, kind, item, named))
         /\ BlockStart(w, b, kind, item, named).begun <=> w.begun
         /\ BlockStart(w, b, kind, item, named).blocks =
              Append(w.blocks, [kind |-> kind, item |-> item, named |-> named, open |-> TRUE])
         /\ BlockStart(w, b, kind, item, named).end = w.end
         /\ BlockStart(w, b, kind, item, named).after => Past(w)
         /\ w.ok /\ w.begun /\ b = Len(w.blocks) + 1
              => BlockStart(w, b, kind, item, named).ok
BY DEF IsWire, BlockStart

LEMMA BlockDeltaFields ==
  ASSUME NEW w, IsWire(w), NEW b, NEW kind, NEW item, NEW n
  PROVE  /\ IsWire(BlockDelta(w, b, kind, item, n))
         /\ BlockDelta(w, b, kind, item, n).begun <=> w.begun
         /\ BlockDelta(w, b, kind, item, n).blocks = w.blocks
         /\ BlockDelta(w, b, kind, item, n).end = w.end
         /\ BlockDelta(w, b, kind, item, n).after => Past(w)
         /\ w.ok /\ b \in Open(w) /\ w.blocks[b].kind = kind
              => BlockDelta(w, b, kind, item, n).ok
BY DEF IsWire, BlockDelta

LEMMA SignatureDeltaFields ==
  ASSUME NEW w, IsWire(w), NEW b, NEW item
  PROVE  /\ IsWire(SignatureDelta(w, b, item))
         /\ SignatureDelta(w, b, item).begun <=> w.begun
         /\ SignatureDelta(w, b, item).blocks = w.blocks
         /\ SignatureDelta(w, b, item).end = w.end
         /\ SignatureDelta(w, b, item).after => Past(w)
         /\ w.ok /\ b \in Open(w) /\ w.blocks[b].kind = "thinking"
              => SignatureDelta(w, b, item).ok
BY DEF IsWire, SignatureDelta

LEMMA BlocksStopFields ==
  ASSUME NEW w, IsWire(w), w.blocks \in Seq(WireBlock), NEW stopping
  PROVE  /\ IsWire(BlocksStop(w, stopping))
         /\ BlocksStop(w, stopping).begun <=> w.begun
         /\ BlocksStop(w, stopping).end = w.end
         /\ BlocksStop(w, stopping).after => Past(w)
         /\ BlocksStop(w, stopping).blocks \in Seq(WireBlock)
         /\ Len(BlocksStop(w, stopping).blocks) = Len(w.blocks)
         /\ \A b \in 1 .. Len(w.blocks) :
              /\ BlocksStop(w, stopping).blocks[b].kind = w.blocks[b].kind
              /\ BlocksStop(w, stopping).blocks[b].open <=> (w.blocks[b].open /\ b \notin stopping)
         /\ w.ok /\ stopping \subseteq Open(w) => BlocksStop(w, stopping).ok
<1> DEFINE after == [b \in DOMAIN w.blocks |->
                       IF b \in stopping THEN Closed(w.blocks[b]) ELSE w.blocks[b]]
<1>1. /\ IsWire(BlocksStop(w, stopping))
      /\ BlocksStop(w, stopping).begun <=> w.begun
      /\ BlocksStop(w, stopping).end = w.end
      /\ BlocksStop(w, stopping).after => Past(w)
      /\ BlocksStop(w, stopping).blocks = after
      /\ w.ok /\ stopping \subseteq Open(w) => BlocksStop(w, stopping).ok
  BY DEF IsWire, BlocksStop, Past
<1>2. DOMAIN w.blocks = 1 .. Len(w.blocks) /\ Len(w.blocks) \in Nat
  OBVIOUS
<1>3. \A b \in 1 .. Len(w.blocks) : w.blocks[b] \in WireBlock
  OBVIOUS
<1>4. \A b \in 1 .. Len(w.blocks) :
        /\ after[b] \in WireBlock
        /\ after[b].kind = w.blocks[b].kind
        /\ after[b].open <=> (w.blocks[b].open /\ b \notin stopping)
  BY <1>2, <1>3 DEF WireBlock, Closed
<1>5. after \in [1 .. Len(w.blocks) -> WireBlock]
  BY <1>2, <1>4
<1>6. after \in Seq(WireBlock) /\ Len(after) = Len(w.blocks)
  BY <1>2, <1>5, SeqDef
<1> HIDE DEF after
<1> QED
  BY <1>1, <1>4, <1>6

LEMMA TheEndFields ==
  ASSUME NEW w, IsWire(w), NEW how
  PROVE  /\ IsWire(TheEnd(w, how))
         /\ TheEnd(w, how).begun <=> w.begun
         /\ TheEnd(w, how).blocks = w.blocks
         /\ TheEnd(w, how).end = how
         /\ (TheEnd(w, how).after <=> w.after)
         /\ /\ w.ok /\ w.end = "none" /\ Open(w) = {}
            /\ how = "rejected" => w.blocks = <<>> /\ ~w.begun
            /\ how \notin {"error", "rejected"} => w.begun
            => TheEnd(w, how).ok
BY DEF IsWire, TheEnd

-----------------------------------------------------------------------------
(***************************************************************************)
(* message_start and the thinking block.                                   *)
(***************************************************************************)
LEMMA EnsureStartGood ==
  ASSUME NEW s, Good(s)
  PROVE  /\ Started(EnsureStart(s))
         /\ (EnsureStart(s).finished <=> s.finished)
         /\ EnsureStart(s).mode = s.mode
         /\ EnsureStart(s).thinking = s.thinking
<1> USE DEF Good, Started
<1>1. CASE s.started
  BY <1>1 DEF EnsureStart
<1>2. CASE ~s.started
  <2> DEFINE r == EnsureStart(s)
  <2>1. r = [s EXCEPT !.started = TRUE, !.wire = MessageStart(s.wire)]
    BY <1>2 DEF EnsureStart
  <2>2. /\ IsTranslator(r)
        /\ r.started /\ r.wire = MessageStart(s.wire)
        /\ (r.finished <=> s.finished) /\ r.mode = s.mode /\ r.thinking = s.thinking
        /\ r.next = s.next /\ r.blocks = s.blocks /\ r.reasonKey = s.reasonKey
    BY <2>1 DEF IsTranslator
  <2> HIDE DEF r
  <2>3. /\ IsWire(r.wire) /\ r.wire.begun /\ r.wire.blocks = s.wire.blocks
        /\ r.wire.end = s.wire.end /\ r.wire.ok /\ (r.wire.after => Past(s.wire))
    BY <1>2, <2>2, MessageStartFields DEF Flagged
  <2>4. Flagged(r)
    BY <2>2, <2>3 DEF Flagged, Past
  <2>5. Counted(r)
    BY <2>2, <2>3 DEF Counted
  <2>6. Shown(r) /\ Apart(r) /\ Thinks(r) /\ Accounted(r)
    BY <2>2, <2>3 DEF Shown, Apart, Thinks, Accounted
  <2> QED
    BY <2>2, <2>3, <2>4, <2>5, <2>6 DEF r
<1> QED
  BY <1>1, <1>2 DEF Flagged

\* The keys of an item and of none.
LEMMA ReasoningKeyFields ==
  ASSUME NEW i
  PROVE  Key(i)[1] = i /\ FinalKey(i)[1] = i /\ NoKey[1] = NoItem
BY DEF Key, FinalKey, NoKey

\* The part of the invariant a change of other fields leaves alone.
LEMMA OtherFields ==
  ASSUME NEW s, NEW r, Good(s), IsTranslator(r),
         r.mode = s.mode, (r.started <=> s.started), (r.finished <=> s.finished),
         r.blocks = s.blocks, r.next = s.next, r.thinking = s.thinking,
         r.wire = s.wire, r.reasonKey[1] \in Items \cup {NoItem}
  PROVE  Good(r)
BY DEF Good, Flagged, Counted, Shown, Apart, Thinks, Accounted

LEMMA FinalizeGood ==
  ASSUME NEW s, Good(s), NEW clear
  PROVE  /\ Good(FinalizeThinking(s, clear))
         /\ SameEnds(s, FinalizeThinking(s, clear))
         /\ FinalizeThinking(s, clear).thinking = Nowhere
         /\ FinalizeThinking(s, clear).blocks = s.blocks
<1> DEFINE r == FinalizeThinking(s, clear)
<1>1. CASE s.mode = "off"
  <2>1. r = s
    BY <1>1 DEF FinalizeThinking
  <2> QED
    BY <1>1, <2>1 DEF Good, Thinks, SameEnds
<1>2. CASE s.mode # "off" /\ s.thinking = Nowhere
  <2>1. r = IF clear THEN [s EXCEPT !.signature = NoItem] ELSE s
    BY <1>2 DEF FinalizeThinking
  <2>2. /\ IsTranslator(r) /\ r.mode = s.mode /\ (r.started <=> s.started)
        /\ (r.finished <=> s.finished) /\ r.blocks = s.blocks /\ r.next = s.next
        /\ r.thinking = s.thinking /\ r.wire = s.wire /\ r.reasonKey = s.reasonKey
    BY <2>1 DEF Good, IsTranslator
  <2> HIDE DEF r
  <2>3. Good(r)
    BY <2>2, OtherFields DEF Good, Counted
  <2> QED
    BY <1>2, <2>2, <2>3 DEF SameEnds, r
<1>3. CASE s.mode # "off" /\ s.thinking # Nowhere
  <2> DEFINE signed == IF s.signature = NoItem THEN s.wire
                       ELSE SignatureDelta(s.wire, s.thinking, s.signature)
             w == BlocksStop(signed, {s.thinking})
  <2>1. /\ IsTranslator(r) /\ r.mode = s.mode /\ (r.started <=> s.started)
        /\ (r.finished <=> s.finished) /\ r.blocks = s.blocks /\ r.next = s.next
        /\ r.thinking = Nowhere /\ r.wire = w
        /\ r.reasonKey \in {s.reasonKey, NoKey}
    BY <1>3 DEF FinalizeThinking, Good, IsTranslator
  <2>2. /\ s.thinking \in DOMAIN s.wire.blocks
        /\ s.thinking \in Open(s.wire) /\ s.wire.blocks[s.thinking].kind = "thinking"
    BY <1>3 DEF Good, Thinks, Counted, Open, Nowhere
  <2>3. /\ IsWire(signed) /\ (signed.begun <=> s.wire.begun) /\ signed.blocks = s.wire.blocks
        /\ signed.end = s.wire.end /\ signed.ok /\ (signed.after => Past(s.wire))
    <3> DEFINE d == SignatureDelta(s.wire, s.thinking, s.signature)
    <3>1. IsWire(s.wire) /\ s.wire.ok
      BY DEF Good, Flagged
    <3>2. /\ IsWire(d) /\ (d.begun <=> s.wire.begun) /\ d.blocks = s.wire.blocks
          /\ d.end = s.wire.end /\ d.ok /\ (d.after => Past(s.wire))
      BY <2>2, <3>1, SignatureDeltaFields
    <3>3. signed = s.wire \/ signed = d
      OBVIOUS
    <3> HIDE DEF signed, d
    <3> QED
      BY <3>1, <3>2, <3>3 DEF Past
  <2> HIDE DEF signed
  <2>4. {s.thinking} \subseteq Open(signed)
    BY <2>2, <2>3 DEF Open
  <2>5. /\ IsWire(w) /\ (w.begun <=> s.wire.begun) /\ w.end = s.wire.end /\ w.ok
        /\ (w.after => Past(s.wire))
        /\ w.blocks \in Seq(WireBlock) /\ Len(w.blocks) = s.next
        /\ \A b \in 1 .. s.next :
             /\ w.blocks[b].kind = s.wire.blocks[b].kind
             /\ w.blocks[b].open <=> (s.wire.blocks[b].open /\ b # s.thinking)
    <3>1. signed.blocks \in Seq(WireBlock) /\ Len(signed.blocks) = s.next
      BY <2>3 DEF Good, Counted
    <3>2. /\ IsWire(w) /\ (w.begun <=> signed.begun) /\ w.end = signed.end /\ w.ok
          /\ (w.after => Past(signed))
          /\ w.blocks \in Seq(WireBlock) /\ Len(w.blocks) = Len(signed.blocks)
          /\ \A b \in 1 .. Len(signed.blocks) :
               /\ w.blocks[b].kind = signed.blocks[b].kind
               /\ w.blocks[b].open <=> (signed.blocks[b].open /\ b \notin {s.thinking})
      BY <2>3, <2>4, <3>1, BlocksStopFields
    <3> HIDE DEF w
    <3> QED
      BY <2>3, <3>1, <3>2 DEF Past
  <2> HIDE DEF r, w
  <2>6. Flagged(r)
    BY <2>1, <2>5 DEF Good, Flagged, Past
  <2>7. Counted(r)
    <3>1. r.reasonKey[1] \in {s.reasonKey[1], NoItem}
      BY <2>1, ReasoningKeyFields
    <3> QED
      BY <2>1, <2>5, <3>1 DEF Good, Counted
  <2>8. Shown(r)
    <3> SUFFICES ASSUME NEW k \in DOMAIN s.blocks
                 PROVE  /\ w.blocks[s.blocks[k].index].kind = KindOf(k)
                        /\ w.blocks[s.blocks[k].index].open <=> ~s.blocks[k].stopped
      BY <2>1 DEF Good, Shown
    <3>1. /\ s.blocks[k].index \in 1 .. s.next
          /\ s.wire.blocks[s.blocks[k].index].kind = KindOf(k)
          /\ s.wire.blocks[s.blocks[k].index].open <=> ~s.blocks[k].stopped
      BY DEF Good, Shown
    <3>2. s.blocks[k].index # s.thinking
      BY <2>2, <3>1 DEF KindOf
    <3> QED
      BY <2>5, <3>1, <3>2
  <2>9. Apart(r) /\ Thinks(r)
    BY <2>1 DEF Good, Apart, Thinks, Counted, Nowhere
  <2>10. Accounted(r)
    BY <2>1, <2>5 DEF Good, Accounted
  <2> QED
    BY <2>1, <2>5, <2>6, <2>7, <2>8, <2>9, <2>10 DEF Good, SameEnds, r
<1> QED
  BY <1>1, <1>2, <1>3

\* A new block, behind the others.
LEMMA Appended ==
  ASSUME NEW blocks \in Seq(WireBlock), NEW block \in WireBlock
  PROVE  /\ Append(blocks, block) \in Seq(WireBlock)
         /\ Len(Append(blocks, block)) = Len(blocks) + 1
         /\ \A b \in 1 .. Len(blocks) : Append(blocks, block)[b] = blocks[b]
         /\ Append(blocks, block)[Len(blocks) + 1] = block
BY AppendProperties

LEMMA EnsureThinkingGood ==
  ASSUME NEW s, Good(s), s.mode # "off"
  PROVE  /\ Good(EnsureThinkingBlock(s))
         /\ EnsureThinkingBlock(s).thinking # Nowhere
         /\ EnsureThinkingBlock(s).mode = s.mode
         /\ (EnsureThinkingBlock(s).finished <=> s.finished)
         /\ (s.started => EnsureThinkingBlock(s).started)
<1>1. CASE s.thinking # Nowhere
  BY <1>1 DEF EnsureThinkingBlock
<1>2. CASE s.thinking = Nowhere
  <2> DEFINE q == EnsureStart(s)
             r == EnsureThinkingBlock(s)
             v == BlockStart(q.wire, q.next + 1, "thinking", q.reasonKey[1], FALSE)
  <2>1. /\ Started(q) /\ (q.finished <=> s.finished) /\ q.mode = s.mode
        /\ q.thinking = Nowhere
    BY <1>2, EnsureStartGood
  <2>2. r = [q EXCEPT !.wire = v, !.next = q.next + 1, !.thinking = q.next + 1,
                      !.stopPending = FALSE]
    BY <1>2 DEF EnsureThinkingBlock
  <2> HIDE DEF q, r, v
  <2>3. /\ IsTranslator(r) /\ r.wire = v /\ r.next = q.next + 1 /\ r.thinking = q.next + 1
        /\ (r.started <=> q.started) /\ (r.finished <=> q.finished) /\ r.mode = q.mode
        /\ r.blocks = q.blocks /\ r.reasonKey = q.reasonKey
    BY <2>1, <2>2 DEF Started, Good, IsTranslator
  <2>4. /\ IsWire(v) /\ v.ok /\ v.begun /\ v.end = q.wire.end /\ (v.after => Past(q.wire))
        /\ v.blocks \in Seq(WireBlock) /\ Len(v.blocks) = q.next + 1
        /\ \A b \in 1 .. q.next : v.blocks[b] = q.wire.blocks[b]
        /\ v.blocks[q.next + 1].kind = "thinking" /\ v.blocks[q.next + 1].open
    <3>1. /\ IsWire(q.wire) /\ q.wire.blocks \in Seq(WireBlock) /\ q.wire.ok
          /\ q.wire.begun /\ q.next = Len(q.wire.blocks)
          /\ q.reasonKey[1] \in Items \cup {NoItem}
      BY <2>1 DEF Started, Good, Flagged, Counted
    <3> DEFINE item == q.reasonKey[1]
    <3>2. PICK named \in BOOLEAN :
            v = BlockStart(q.wire, q.next + 1, "thinking", item, named)
      BY Zenon DEF v
    <3> DEFINE block == [kind |-> "thinking", item |-> item, named |-> named,
                         open |-> TRUE]
    <3>5. item \in Items \cup {NoItem}
      BY <3>1
    <3> HIDE DEF item
    <3>3. /\ IsWire(v) /\ v.ok /\ v.begun /\ v.end = q.wire.end /\ (v.after => Past(q.wire))
          /\ v.blocks = Append(q.wire.blocks, block)
      BY <3>1, <3>2, BlockStartFields
    <3>4. block \in WireBlock /\ block.kind = "thinking" /\ block.open
      BY <3>5 DEF WireBlock
    <3> HIDE DEF block
    <3> QED
      BY <3>1, <3>3, <3>4, Appended
  <2>5. q.next \in Nat
    BY <2>1 DEF Started, Good, Counted
  <2>6. Flagged(r) /\ Counted(r)
    BY <2>1, <2>3, <2>4, <2>5 DEF Started, Good, Flagged, Counted, Past
  <2>7. Shown(r) /\ Apart(r)
    <3>1. \A k \in DOMAIN q.blocks :
            v.blocks[q.blocks[k].index] = q.wire.blocks[q.blocks[k].index]
      BY <2>1, <2>4 DEF Started, Good, Shown
    <3>2. \A k \in DOMAIN q.blocks : q.blocks[k].index \in 1 .. q.next + 1
      BY <2>1, <2>5 DEF Started, Good, Shown
    <3> QED
      BY <2>1, <2>3, <3>1, <3>2 DEF Started, Good, Shown, Apart
  <2>8. Thinks(r)
    BY <1>2, <2>1, <2>3, <2>4, <2>5 DEF Started, Good, Thinks
  <2>9. Accounted(r)
    <3> SUFFICES ASSUME NEW b \in 1 .. q.next + 1, v.blocks[b].open, b # q.next + 1
                 PROVE  \E k \in DOMAIN q.blocks : q.blocks[k].index = b /\ ~q.blocks[k].stopped
      BY <2>3 DEF Accounted
    <3>1. b \in 1 .. q.next /\ q.wire.blocks[b].open /\ b # q.thinking
      BY <2>1, <2>4, <2>5 DEF Nowhere
    <3> QED
      BY <2>1, <3>1 DEF Started, Good, Accounted
  <2> QED
    BY <2>1, <2>3, <2>4, <2>5, <2>6, <2>7, <2>8, <2>9 DEF Good, Started, Nowhere, r
<1> QED
  BY <1>1, <1>2

LEMMA StartThinkingGood ==
  ASSUME NEW s, Started(s), NEW i \in Items
  PROVE  /\ Started(StartThinkingPart(s, i))
         /\ StartThinkingPart(s, i).mode = s.mode
         /\ (StartThinkingPart(s, i).finished <=> s.finished)
         /\ s.mode # "off" => StartThinkingPart(s, i).thinking # Nowhere
<1>1. CASE s.mode = "off"
  BY <1>1 DEF StartThinkingPart
<1>2. CASE s.mode # "off"
  <2> DEFINE q == IF s.thinking # Nowhere /\ s.stopPending
                  THEN FinalizeThinking(s, FALSE) ELSE s
             r == [q EXCEPT !.reasonKey = Key(i)]
  <2>1. Good(q) /\ SameEnds(s, q)
    BY FinalizeGood DEF Started, SameEnds
  <2>2. StartThinkingPart(s, i) = EnsureThinkingBlock(r)
    BY <1>2 DEF StartThinkingPart
  <2> HIDE DEF q
  <2>3. Good(r) /\ r.started /\ r.mode = s.mode /\ (r.finished <=> s.finished)
    <3>1. /\ IsTranslator(r) /\ r.mode = q.mode /\ (r.started <=> q.started)
          /\ (r.finished <=> q.finished) /\ r.blocks = q.blocks /\ r.next = q.next
          /\ r.thinking = q.thinking /\ r.wire = q.wire /\ r.reasonKey = Key(i)
      BY <2>1 DEF Good, IsTranslator
    <3> HIDE DEF r
    <3> QED
      BY <2>1, <3>1, OtherFields, ReasoningKeyFields DEF SameEnds, Started
  <2> HIDE DEF r
  <2> QED
    BY <1>2, <2>2, <2>3, EnsureThinkingGood DEF Started
<1> QED
  BY <1>1, <1>2

\* An event for an open block changes nothing but what was received.
LEMMA FedGood ==
  ASSUME NEW s, Good(s), NEW b \in Open(s.wire), NEW kind, kind = s.wire.blocks[b].kind,
         NEW i, NEW n, NEW r, IsTranslator(r),
         r.mode = s.mode, (r.started <=> s.started), (r.finished <=> s.finished),
         r.blocks = s.blocks, r.next = s.next, r.thinking = s.thinking,
         r.reasonKey = s.reasonKey, r.wire = BlockDelta(s.wire, b, kind, i, n)
  PROVE  Good(r)
<1>1. IsWire(s.wire) /\ s.wire.ok
  BY DEF Good, Flagged
<1>2. /\ IsWire(r.wire) /\ r.wire.ok /\ (r.wire.begun <=> s.wire.begun)
      /\ r.wire.blocks = s.wire.blocks /\ r.wire.end = s.wire.end
      /\ (r.wire.after => Past(s.wire))
  BY <1>1, BlockDeltaFields
<1>3. Flagged(r) /\ Counted(r)
  BY <1>2 DEF Good, Flagged, Counted, Past
<1>4. Shown(s) /\ Apart(s) /\ Thinks(s) /\ Accounted(s)
  BY DEF Good
<1>5. Shown(r)
  BY <1>2, <1>4 DEF Shown
<1>6. Apart(r)
  BY <1>4 DEF Apart
<1>7. Thinks(r)
  BY <1>2, <1>4 DEF Thinks
<1>8. Accounted(r)
  BY <1>2, <1>4 DEF Accounted
<1> QED
  BY <1>2, <1>3, <1>5, <1>6, <1>7, <1>8 DEF Good

LEMMA ThinkingDeltaGood ==
  ASSUME NEW s, Good(s), NEW i, NEW n
  PROVE  /\ Good(ThinkingDelta(s, i, n))
         /\ SameEnds(s, ThinkingDelta(s, i, n))
<1>1. CASE s.mode # "summarized" \/ n = 0
  BY <1>1 DEF ThinkingDelta, SameEnds
<1>2. CASE ~(s.mode # "summarized" \/ n = 0)
  <2> DEFINE q == EnsureThinkingBlock(s)
             v == BlockDelta(q.wire, q.thinking, "thinking", i, n)
             r == [q EXCEPT !.wire = v]
  <2>1. Good(q) /\ q.thinking # Nowhere /\ SameEnds(s, q)
    BY <1>2, EnsureThinkingGood DEF SameEnds
  <2>2. ThinkingDelta(s, i, n) = r
    BY <1>2 DEF ThinkingDelta
  <2> HIDE DEF q
  <2>3. q.thinking \in Open(q.wire) /\ q.wire.blocks[q.thinking].kind = "thinking"
    BY <2>1 DEF Good, Thinks, Counted, Open, Nowhere
  <2> HIDE DEF v
  <2>4. /\ IsTranslator(r) /\ r.mode = q.mode /\ (r.started <=> q.started)
        /\ (r.finished <=> q.finished) /\ r.blocks = q.blocks /\ r.next = q.next
        /\ r.thinking = q.thinking /\ r.reasonKey = q.reasonKey /\ r.wire = v
    BY <2>1 DEF Good, IsTranslator
  <2> HIDE DEF r
  <2>5. Good(r)
    BY <2>1, <2>3, <2>4, FedGood DEF v
  <2> QED
    BY <2>1, <2>2, <2>4, <2>5 DEF SameEnds
<1> QED
  BY <1>1, <1>2

LEMMA CaptureGood ==
  ASSUME NEW s, Good(s), NEW i \in Items, NEW sig
  PROVE  /\ Good(CaptureSignature(s, i, sig))
         /\ SameEnds(s, CaptureSignature(s, i, sig))
         /\ CaptureSignature(s, i, sig).thinking = s.thinking
<1>1. CASE s.mode = "off" \/ ~sig
  BY <1>1 DEF CaptureSignature, SameEnds
<1>2. CASE ~(s.mode = "off" \/ ~sig)
  <2> DEFINE r == [s EXCEPT !.signature = i, !.reasonKey = Key(i)]
  <2>1. CaptureSignature(s, i, sig) = r
    BY <1>2 DEF CaptureSignature
  <2>2. /\ IsTranslator(r) /\ r.mode = s.mode /\ (r.started <=> s.started)
        /\ (r.finished <=> s.finished) /\ r.blocks = s.blocks /\ r.next = s.next
        /\ r.thinking = s.thinking /\ r.wire = s.wire /\ r.reasonKey = Key(i)
    BY DEF Good, IsTranslator
  <2> HIDE DEF r
  <2>3. Good(r)
    BY <2>2, OtherFields, ReasoningKeyFields
  <2> QED
    BY <2>1, <2>2, <2>3 DEF SameEnds
<1> QED
  BY <1>1, <1>2

\* Setting the key of the reasoning at hand.
LEMMA KeyedGood ==
  ASSUME NEW s, Good(s), NEW k, k[1] \in Items
  PROVE  LET r == [s EXCEPT !.reasonKey = k]
         IN Good(r) /\ SameEnds(s, r) /\ r.thinking = s.thinking
<1> DEFINE r == [s EXCEPT !.reasonKey = k]
<1>1. /\ IsTranslator(r) /\ r.mode = s.mode /\ (r.started <=> s.started)
      /\ (r.finished <=> s.finished) /\ r.blocks = s.blocks /\ r.next = s.next
      /\ r.thinking = s.thinking /\ r.wire = s.wire /\ r.reasonKey = k
  BY DEF Good, IsTranslator
<1> HIDE DEF r
<1>2. Good(r)
  BY <1>1, OtherFields
<1> QED
  BY <1>1, <1>2 DEF SameEnds, r

LEMMA EmitFinalReasoningGood ==
  ASSUME NEW s, Good(s), NEW k, k[1] \in Items, NEW n, NEW sig
  PROVE  /\ Good(EmitFinalReasoning(s, k, n, sig))
         /\ SameEnds(s, EmitFinalReasoning(s, k, n, sig))
<1> DEFINE summary == IF s.mode = "omitted" THEN 0 ELSE n
           signature == IF sig THEN k[1] ELSE s.signature
           q == [s EXCEPT !.reasonKey = k, !.signature = signature]
           e == EnsureThinkingBlock(q)
           d == ThinkingDelta(e, k[1], summary)
           r == FinalizeThinking(d, TRUE)
<1>1. \/ EmitFinalReasoning(s, k, n, sig) = s
      \/ s.mode # "off" /\ EmitFinalReasoning(s, k, n, sig) = r
  BY DEF EmitFinalReasoning
<1>2. CASE s.mode # "off"
  <2>1. /\ IsTranslator(q) /\ q.mode = s.mode /\ (q.started <=> s.started)
        /\ (q.finished <=> s.finished) /\ q.blocks = s.blocks /\ q.next = s.next
        /\ q.thinking = s.thinking /\ q.wire = s.wire /\ q.reasonKey = k
    BY DEF Good, IsTranslator
  <2> HIDE DEF q
  <2>2. Good(q) /\ SameEnds(s, q) /\ q.mode # "off"
    BY <1>2, <2>1, OtherFields DEF SameEnds
  <2>3. Good(e) /\ SameEnds(q, e)
    BY <2>2, EnsureThinkingGood DEF SameEnds
  <2> HIDE DEF e
  <2>4. Good(d) /\ SameEnds(e, d)
    BY <2>3, ThinkingDeltaGood
  <2> HIDE DEF d
  <2>5. Good(r) /\ SameEnds(d, r)
    BY <2>4, FinalizeGood
  <2> HIDE DEF r
  <2> QED
    BY <1>1, <2>2, <2>3, <2>4, <2>5 DEF SameEnds
<1> QED
  BY <1>1, <1>2 DEF SameEnds

-----------------------------------------------------------------------------
(***************************************************************************)
(* Text and tool blocks.                                                   *)
(***************************************************************************)
LEMMA KeyFields ==
  ASSUME NEW k \in Keys
  PROVE  KindOf(k) \in {"text", "tool"} /\ k[1] \in Items
BY DEF Keys, KindOf, Items

LEMMA EnsureBlockGood ==
  ASSUME NEW s, Started(s), NEW k \in Keys, NEW named \in BOOLEAN
  PROVE  /\ Started(EnsureBlock(s, k, named))
         /\ SameEnds(s, EnsureBlock(s, k, named))
         /\ k \in DOMAIN EnsureBlock(s, k, named).blocks
<1> DEFINE q == FinishThinkingBeforeContent(s)
           r == EnsureBlock(s, k, named)
<1>1. Started(q) /\ SameEnds(s, q) /\ q.thinking = Nowhere
  BY FinalizeGood DEF FinishThinkingBeforeContent, Started, SameEnds
<1>2. CASE k \in DOMAIN q.blocks
  BY <1>1, <1>2 DEF EnsureBlock, Registered
<1>3. CASE k \notin DOMAIN q.blocks
  <2> DEFINE v == BlockStart(q.wire, q.next + 1, KindOf(k), k[1], named)
             new == [index |-> q.next + 1, emitted |-> FALSE, stopped |-> FALSE]
             blocks == [x \in DOMAIN q.blocks \cup {k} |->
                          IF x = k THEN new ELSE q.blocks[x]]
             shown == [kind |-> KindOf(k), item |-> k[1], named |-> named, open |-> TRUE]
  <2>1. r = [q EXCEPT !.wire = v, !.next = q.next + 1, !.blocks = blocks,
                      !.hasTool = q.hasTool \/ KindOf(k) = "tool"]
    BY <1>3 DEF EnsureBlock, Registered
  <2>2. /\ new \in Block \/ q.next \notin Nat
        /\ new.index = q.next + 1 /\ ~new.stopped
    BY DEF Block
  <2>3. /\ DOMAIN blocks = DOMAIN q.blocks \cup {k}
        /\ blocks[k] = new
        /\ \A x \in DOMAIN q.blocks : blocks[x] = q.blocks[x]
    BY <1>3
  <2> HIDE DEF q, v, new, blocks, r
  <2>4. /\ IsTranslator(r) /\ r.wire = v /\ r.next = q.next + 1 /\ r.blocks = blocks
        /\ (r.started <=> q.started) /\ (r.finished <=> q.finished) /\ r.mode = q.mode
        /\ r.thinking = q.thinking /\ r.reasonKey = q.reasonKey
    BY <1>1, <2>1 DEF Started, Good, IsTranslator
  <2>5. /\ IsWire(q.wire) /\ q.wire.blocks \in Seq(WireBlock) /\ q.wire.ok
        /\ q.wire.begun /\ q.next = Len(q.wire.blocks) /\ q.next \in Nat
    BY <1>1 DEF Started, Good, Flagged, Counted
  <2>6. /\ IsWire(v) /\ v.ok /\ v.begun /\ v.end = q.wire.end /\ (v.after => Past(q.wire))
        /\ v.blocks = Append(q.wire.blocks, shown)
    BY <2>5, BlockStartFields DEF v
  <2>7. shown \in WireBlock /\ shown.kind = KindOf(k) /\ shown.open
    BY KeyFields DEF WireBlock
  <2> HIDE DEF shown
  <2>8. /\ v.blocks \in Seq(WireBlock) /\ Len(v.blocks) = q.next + 1
        /\ \A b \in 1 .. q.next : v.blocks[b] = q.wire.blocks[b]
        /\ v.blocks[q.next + 1].kind = KindOf(k) /\ v.blocks[q.next + 1].open
    BY <2>5, <2>6, <2>7, Appended
  <2>9. Flagged(r) /\ Counted(r)
    BY <1>1, <2>4, <2>5, <2>6, <2>8 DEF Started, Good, Flagged, Counted, Past
  <2>10. Shown(r)
    <3>1. DOMAIN r.blocks \subseteq Keys
      BY <1>1, <2>3, <2>4 DEF Started, Good, Shown
    <3>2. ASSUME NEW x \in DOMAIN q.blocks
          PROVE  /\ blocks[x] \in Block /\ blocks[x].index \in 1 .. q.next + 1
                 /\ v.blocks[blocks[x].index].kind = KindOf(x)
                 /\ v.blocks[blocks[x].index].open <=> ~blocks[x].stopped
      <4>1. /\ q.blocks[x] \in Block /\ q.blocks[x].index \in 1 .. q.next
            /\ q.wire.blocks[q.blocks[x].index].kind = KindOf(x)
            /\ q.wire.blocks[q.blocks[x].index].open <=> ~q.blocks[x].stopped
        BY <1>1 DEF Started, Good, Shown
      <4> QED
        BY <2>3, <2>5, <2>8, <4>1
    <3>3. /\ blocks[k] \in Block /\ blocks[k].index \in 1 .. q.next + 1
          /\ v.blocks[blocks[k].index].kind = KindOf(k)
          /\ v.blocks[blocks[k].index].open <=> ~blocks[k].stopped
      BY <2>2, <2>3, <2>5, <2>8
    <3> QED
      BY <2>3, <2>4, <3>1, <3>2, <3>3 DEF Shown
  <2>11. Apart(r)
    <3>1. \A x \in DOMAIN q.blocks : blocks[x].index # q.next + 1
      BY <1>1, <2>3, <2>5 DEF Started, Good, Shown
    <3> QED
      BY <1>1, <2>2, <2>3, <2>4, <3>1 DEF Started, Good, Apart
  <2>12. Thinks(r)
    BY <1>1, <2>4, <2>5 DEF Started, Good, Thinks, Nowhere
  <2>13. Accounted(r)
    <3> SUFFICES ASSUME NEW b \in 1 .. q.next + 1, v.blocks[b].open
                 PROVE  \E x \in DOMAIN blocks : blocks[x].index = b /\ ~blocks[x].stopped
      BY <2>4 DEF Accounted
    <3>1. CASE b = q.next + 1
      BY <2>2, <2>3, <3>1
    <3>2. CASE b # q.next + 1
      <4>1. b \in 1 .. q.next /\ q.wire.blocks[b].open /\ b # q.thinking
        BY <1>1, <2>5, <2>8, <3>2 DEF Nowhere
      <4>2. \E x \in DOMAIN q.blocks : q.blocks[x].index = b /\ ~q.blocks[x].stopped
        BY <1>1, <4>1 DEF Started, Good, Accounted
      <4> QED
        BY <2>3, <4>2
    <3> QED
      BY <3>1, <3>2
  <2>14. Good(r)
    BY <2>4, <2>6, <2>9, <2>10, <2>11, <2>12, <2>13 DEF Good
  <2> QED
    BY <1>1, <2>3, <2>4, <2>14 DEF Started, SameEnds, r
<1> QED
  BY <1>2, <1>3

LEMMA FeedGood ==
  ASSUME NEW s, Started(s), NEW k \in Keys, NEW n, NEW named \in BOOLEAN
  PROVE  Started(Feed(s, k, n, named)) /\ SameEnds(s, Feed(s, k, n, named))
<1> DEFINE q == EnsureBlock(s, k, named)
<1>1. Started(q) /\ SameEnds(s, q) /\ k \in DOMAIN q.blocks
  BY EnsureBlockGood
<1>2. CASE n = 0
  BY <1>2 DEF Feed, SameEnds
<1>3. CASE n # 0 /\ q.blocks[k].stopped
  BY <1>1, <1>3 DEF Feed
<1>4. CASE n # 0 /\ ~q.blocks[k].stopped
  <2> DEFINE v == BlockDelta(q.wire, q.blocks[k].index, KindOf(k), k[1], n)
             fed == [q.blocks[k] EXCEPT !.emitted = TRUE]
             blocks == [q.blocks EXCEPT ![k] = fed]
             p == [q EXCEPT !.wire = v]
             r == [q EXCEPT !.wire = v, !.blocks = blocks]
  <2>1. Feed(s, k, n, named) = r
    BY <1>4 DEF Feed, Marked
  <2> HIDE DEF q
  <2>2. /\ q.blocks[k] \in Block /\ q.blocks[k].index \in 1 .. q.next
        /\ q.wire.blocks[q.blocks[k].index].kind = KindOf(k)
        /\ q.wire.blocks[q.blocks[k].index].open
        /\ q.next = Len(q.wire.blocks)
    BY <1>1, <1>4 DEF Started, Good, Shown, Counted
  <2>3. q.blocks[k].index \in Open(q.wire)
    BY <1>1, <2>2 DEF Started, Good, Counted, Open
  <2> HIDE DEF v, fed
  <2>4. /\ IsTranslator(p) /\ p.wire = v /\ p.mode = q.mode /\ (p.started <=> q.started)
        /\ (p.finished <=> q.finished) /\ p.blocks = q.blocks /\ p.next = q.next
        /\ p.thinking = q.thinking /\ p.reasonKey = q.reasonKey
    BY <1>1 DEF Started, Good, IsTranslator
  <2>5. Good(p)
    <3> HIDE DEF p
    <3> QED
      BY <1>1, <2>2, <2>3, <2>4, FedGood DEF v, Started
  <2>6. /\ fed \in Block /\ fed.index = q.blocks[k].index
        /\ (fed.stopped <=> q.blocks[k].stopped)
    BY <2>2 DEF Block, fed
  <2>7. /\ DOMAIN blocks = DOMAIN q.blocks
        /\ \A x \in DOMAIN q.blocks : blocks[x] = IF x = k THEN fed ELSE q.blocks[x]
    OBVIOUS
  <2>8. /\ IsTranslator(r) /\ r.wire = p.wire /\ r.next = p.next /\ r.blocks = blocks
        /\ (r.started <=> p.started) /\ (r.finished <=> p.finished) /\ r.mode = p.mode
        /\ r.thinking = p.thinking /\ r.reasonKey = p.reasonKey
    BY <1>1 DEF Started, Good, IsTranslator
  <2> HIDE DEF fed, blocks, p, r
  <2>9. \A x \in DOMAIN q.blocks :
          /\ blocks[x] \in Block /\ blocks[x].index = q.blocks[x].index
          /\ (blocks[x].stopped <=> q.blocks[x].stopped)
    BY <1>1, <2>6, <2>7 DEF Started, Good, Shown
  <2>10. Flagged(r) /\ Counted(r) /\ Thinks(r)
    BY <2>4, <2>5, <2>8 DEF Good, Flagged, Counted, Thinks
  <2>11. Shown(r)
    BY <2>4, <2>5, <2>7, <2>8, <2>9 DEF Good, Shown
  <2>12. Apart(r) /\ Accounted(r)
    BY <2>4, <2>5, <2>7, <2>8, <2>9 DEF Good, Apart, Accounted
  <2>13. Good(r)
    BY <2>5, <2>8, <2>10, <2>11, <2>12 DEF Good
  <2> QED
    BY <1>1, <2>1, <2>4, <2>8, <2>13 DEF Started, SameEnds
<1> QED
  BY <1>2, <1>3, <1>4

\* Stopping some of the registered blocks.
LEMMA BlocksStopGood ==
  ASSUME NEW s, Good(s), NEW ks, ks \subseteq DOMAIN s.blocks,
         \A k \in ks : ~s.blocks[k].stopped,
         NEW r, IsTranslator(r), SameEnds(s, r), (r.started <=> s.started),
         r.next = s.next, r.thinking = s.thinking, r.reasonKey = s.reasonKey,
         r.wire = BlocksStop(s.wire, {s.blocks[k].index : k \in ks}),
         DOMAIN r.blocks = DOMAIN s.blocks,
         \A k \in DOMAIN s.blocks :
           /\ r.blocks[k] \in Block /\ r.blocks[k].index = s.blocks[k].index
           /\ r.blocks[k].stopped <=> (s.blocks[k].stopped \/ k \in ks)
  PROVE  Good(r)
<1> DEFINE stopping == {s.blocks[k].index : k \in ks}
<1>1. /\ s.wire.blocks \in Seq(WireBlock) /\ Len(s.wire.blocks) = s.next
      /\ IsWire(s.wire) /\ s.wire.ok /\ s.next \in Nat
  BY DEF Good, Counted, Flagged
<1>2. \A k \in DOMAIN s.blocks :
        /\ s.blocks[k].index \in 1 .. s.next
        /\ s.wire.blocks[s.blocks[k].index].kind = KindOf(k)
        /\ s.wire.blocks[s.blocks[k].index].open <=> ~s.blocks[k].stopped
  BY DEF Good, Shown
<1>3. stopping \subseteq Open(s.wire)
  BY <1>1, <1>2 DEF Open
<1>4. r.wire = BlocksStop(s.wire, stopping)
  OBVIOUS
<1>5. \A k \in DOMAIN s.blocks : s.blocks[k].index \in stopping <=> k \in ks
  BY DEF Good, Apart
<1>6. s.thinking \notin stopping
  <2>1. ASSUME NEW k \in ks, s.thinking = s.blocks[k].index PROVE FALSE
    BY <1>2, <2>1 DEF Good, Thinks, KindOf, Nowhere
  <2> QED
    BY <2>1
<1> HIDE DEF stopping
<1>7. /\ IsWire(r.wire) /\ (r.wire.begun <=> s.wire.begun) /\ r.wire.end = s.wire.end
      /\ (r.wire.after => Past(s.wire))
      /\ r.wire.ok /\ r.wire.blocks \in Seq(WireBlock) /\ Len(r.wire.blocks) = s.next
      /\ \A b \in 1 .. s.next :
           /\ r.wire.blocks[b].kind = s.wire.blocks[b].kind
           /\ r.wire.blocks[b].open <=> (s.wire.blocks[b].open /\ b \notin stopping)
  BY <1>1, <1>3, <1>4, BlocksStopFields
<1>8. Flagged(r) /\ Counted(r)
  BY <1>1, <1>7 DEF Good, Flagged, Counted, SameEnds, Past
<1>9. Shown(r)
  <2> SUFFICES ASSUME NEW k \in DOMAIN s.blocks
               PROVE  /\ r.blocks[k].index \in 1 .. s.next
                      /\ r.wire.blocks[r.blocks[k].index].kind = KindOf(k)
                      /\ r.wire.blocks[r.blocks[k].index].open <=> ~r.blocks[k].stopped
    BY DEF Good, Shown
  <2>1. /\ r.blocks[k].index = s.blocks[k].index
        /\ r.blocks[k].stopped <=> (s.blocks[k].stopped \/ k \in ks)
    OBVIOUS
  <2>2. s.blocks[k].index \in 1 .. s.next
    BY <1>2
  <2>3. /\ r.wire.blocks[s.blocks[k].index].kind = KindOf(k)
        /\ r.wire.blocks[s.blocks[k].index].open
             <=> (~s.blocks[k].stopped /\ s.blocks[k].index \notin stopping)
    BY <1>2, <1>7, <2>2
  <2> QED
    BY <1>5, <2>1, <2>2, <2>3
<1>10. Apart(r)
  <2> SUFFICES ASSUME NEW k \in DOMAIN s.blocks, NEW l \in DOMAIN s.blocks,
                      r.blocks[k].index = r.blocks[l].index
               PROVE  k = l
    BY DEF Apart
  <2> QED
    BY DEF Good, Apart
<1>11. Thinks(r)
  BY <1>1, <1>6, <1>7 DEF Good, Thinks, SameEnds, Nowhere
<1>12. Accounted(r)
  <2> SUFFICES ASSUME NEW b \in 1 .. s.next, r.wire.blocks[b].open, b # s.thinking
               PROVE  \E k \in DOMAIN s.blocks : r.blocks[k].index = b /\ ~r.blocks[k].stopped
    BY DEF Accounted
  <2>1. s.wire.blocks[b].open /\ b \notin stopping
    BY <1>7
  <2>2. PICK k \in DOMAIN s.blocks : s.blocks[k].index = b /\ ~s.blocks[k].stopped
    BY <2>1 DEF Good, Accounted
  <2> QED
    BY <1>5, <2>1, <2>2
<1> QED
  BY <1>7, <1>8, <1>9, <1>10, <1>11, <1>12 DEF Good

LEMMA StopBlockGood ==
  ASSUME NEW s, Good(s), NEW k
  PROVE  Good(StopBlock(s, k)) /\ SameEnds(s, StopBlock(s, k))
<1>1. CASE k \notin DOMAIN s.blocks
  BY <1>1 DEF StopBlock, Registered, SameEnds
<1>2. CASE k \in DOMAIN s.blocks /\ s.blocks[k].stopped
  BY <1>2 DEF StopBlock, Registered, SameEnds
<1>3. CASE k \in DOMAIN s.blocks /\ ~s.blocks[k].stopped
  <2> DEFINE v == BlocksStop(s.wire, {s.blocks[k].index})
             stopped == Stopped(s.blocks[k])
             blocks == [s.blocks EXCEPT ![k] = stopped]
             r == [s EXCEPT !.wire = v, !.blocks = blocks]
  <2>1. StopBlock(s, k) = r
    BY <1>3, Zenon DEF StopBlock, Registered, Marked
  <2>2. s.blocks[k] \in Block
    BY <1>3 DEF Good, Shown
  <2>3. stopped \in Block /\ stopped.index = s.blocks[k].index /\ stopped.stopped
    BY <2>2 DEF Stopped, Block
  <2> HIDE DEF v, stopped
  <2>4. /\ DOMAIN blocks = DOMAIN s.blocks
        /\ \A x \in DOMAIN s.blocks : blocks[x] = IF x = k THEN stopped ELSE s.blocks[x]
    OBVIOUS
  <2> HIDE DEF blocks
  <2>5. /\ IsTranslator(r) /\ r.wire = v /\ r.next = s.next /\ r.blocks = blocks
        /\ (r.started <=> s.started) /\ (r.finished <=> s.finished) /\ r.mode = s.mode
        /\ r.thinking = s.thinking /\ r.reasonKey = s.reasonKey
    BY DEF Good, IsTranslator
  <2> HIDE DEF r
  <2>6. v = BlocksStop(s.wire, {s.blocks[x].index : x \in {k}})
    <3>1. {s.blocks[x].index : x \in {k}} = {s.blocks[k].index}
      OBVIOUS
    <3> QED
      BY <3>1 DEF v
  <2>7. \A x \in DOMAIN s.blocks :
          /\ blocks[x] \in Block /\ blocks[x].index = s.blocks[x].index
          /\ blocks[x].stopped <=> (s.blocks[x].stopped \/ x \in {k})
    BY <2>3, <2>4 DEF Good, Shown
  <2>8. SameEnds(s, r)
    BY <2>5 DEF SameEnds
  <2>9. Good(r)
    BY <1>3, <2>4, <2>5, <2>6, <2>7, <2>8, BlocksStopGood
  <2> QED
    BY <2>1, <2>8, <2>9
<1> QED
  BY <1>1, <1>2, <1>3

LEMMA StopAllGood ==
  ASSUME NEW s, Good(s), s.thinking = Nowhere
  PROVE  /\ Good(StopAllBlocks(s))
         /\ SameEnds(s, StopAllBlocks(s))
         /\ (StopAllBlocks(s).started <=> s.started)
         /\ Open(StopAllBlocks(s).wire) = {}
<1> DEFINE ks == {k \in DOMAIN s.blocks : ~s.blocks[k].stopped}
           v == BlocksStop(s.wire, {s.blocks[k].index : k \in ks})
           blocks == [k \in DOMAIN s.blocks |-> Stopped(s.blocks[k])]
           r == [s EXCEPT !.wire = v, !.blocks = blocks]
<1>1. StopAllBlocks(s) = r
  BY DEF StopAllBlocks
<1>2. /\ DOMAIN blocks = DOMAIN s.blocks
      /\ \A x \in DOMAIN s.blocks : blocks[x] = Stopped(s.blocks[x])
  OBVIOUS
<1> HIDE DEF v, blocks
<1>3. /\ IsTranslator(r) /\ r.wire = v /\ r.next = s.next /\ r.blocks = blocks
      /\ (r.started <=> s.started) /\ (r.finished <=> s.finished) /\ r.mode = s.mode
      /\ r.thinking = s.thinking /\ r.reasonKey = s.reasonKey
  BY DEF Good, IsTranslator
<1> HIDE DEF r
<1>4. \A x \in DOMAIN s.blocks :
        /\ blocks[x] \in Block /\ blocks[x].index = s.blocks[x].index
        /\ blocks[x].stopped
  <2> SUFFICES ASSUME NEW x \in DOMAIN s.blocks
               PROVE  /\ blocks[x] \in Block /\ blocks[x].index = s.blocks[x].index
                      /\ blocks[x].stopped
    OBVIOUS
  <2>1. s.blocks[x] \in Block
    BY DEF Good, Shown
  <2> QED
    BY <1>2, <2>1 DEF Stopped, Block
<1>5. \A x \in DOMAIN s.blocks : blocks[x].stopped <=> (s.blocks[x].stopped \/ x \in ks)
  BY <1>4
<1>6. /\ ks \subseteq DOMAIN s.blocks
      /\ \A k \in ks : ~s.blocks[k].stopped
  OBVIOUS
<1> HIDE DEF ks
<1>7. SameEnds(s, r)
  BY <1>3 DEF SameEnds
<1>8. Good(r)
  BY <1>2, <1>3, <1>4, <1>5, <1>6, <1>7, BlocksStopGood DEF v
<1>9. Open(r.wire) = {}
  <2>1. DOMAIN r.wire.blocks = 1 .. r.next
    BY <1>8 DEF Good, Counted
  <2>2. ASSUME NEW b \in 1 .. r.next, r.wire.blocks[b].open PROVE FALSE
    <3>1. r.next \in Nat /\ b # r.thinking
      BY <1>3, <1>8 DEF Good, Counted, Nowhere
    <3> QED
      BY <1>2, <1>3, <1>4, <1>8, <2>2, <3>1 DEF Good, Accounted
  <2> QED
    BY <2>1, <2>2 DEF Open
<1> QED
  BY <1>1, <1>3, <1>7, <1>8, <1>9

-----------------------------------------------------------------------------
(***************************************************************************)
(* The ends.                                                               *)
(***************************************************************************)
\* An end behind the last block, for a client that has not seen one.
LEMMA EndGood ==
  ASSUME NEW s, Good(s), ~s.finished, Open(s.wire) = {}, NEW how,
         how \notin {"none", "rejected"}, how # "error" => s.started,
         NEW r, IsTranslator(r), r.finished, (r.started <=> s.started),
         r.mode = s.mode, r.blocks = s.blocks, r.next = s.next,
         r.thinking = s.thinking, r.reasonKey = s.reasonKey,
         r.wire = TheEnd(s.wire, how)
  PROVE  Good(r) /\ r.wire.end = how /\ ~r.wire.after
<1>1. /\ IsWire(s.wire) /\ s.wire.ok /\ (s.wire.begun <=> s.started) /\ s.wire.end = "none"
      /\ ~s.wire.after
  BY DEF Good, Flagged
<1>2. /\ IsWire(r.wire) /\ (r.wire.begun <=> s.wire.begun) /\ r.wire.blocks = s.wire.blocks
      /\ r.wire.end = how /\ r.wire.ok /\ ~r.wire.after
  BY <1>1, TheEndFields
<1>3. Flagged(r) /\ Counted(r)
  BY <1>1, <1>2 DEF Good, Flagged, Counted
<1>4. Shown(s) /\ Apart(s) /\ Thinks(s) /\ Accounted(s)
  BY DEF Good
<1>5. Shown(r)
  BY <1>2, <1>4 DEF Shown
<1>6. Apart(r)
  BY <1>4 DEF Apart
<1>7. Thinks(r)
  BY <1>2, <1>4 DEF Thinks
<1>8. Accounted(r)
  BY <1>2, <1>4 DEF Accounted
<1> QED
  BY <1>2, <1>3, <1>5, <1>6, <1>7, <1>8 DEF Good

LEMMA FinishGood ==
  ASSUME NEW s, Good(s), NEW how \in StopReasons \cup {"none"}
  PROVE  /\ Good(Finish(s, how))
         /\ (s.started => Finish(s, how).started)
         /\ Finish(s, how).finished
         /\ ~s.finished => ~Finish(s, how).wire.after
<1>1. CASE s.finished
  BY <1>1 DEF Finish
<1>2. CASE ~s.finished
  <2> DEFINE a == EnsureStart(s)
             b == FinalizeThinking(a, TRUE)
             q == StopAllBlocks(b)
             stopReason == IF how # "none" THEN how
                           ELSE IF q.hasTool THEN "tool_use" ELSE "end_turn"
             r == [q EXCEPT !.wire = TheEnd(q.wire, stopReason), !.finished = TRUE]
  <2>1. Finish(s, how) = r
    BY <1>2 DEF Finish
  <2>2. Good(a) /\ a.started /\ ~a.finished
    BY <1>2, EnsureStartGood DEF Started
  <2> HIDE DEF a
  <2>3. Good(b) /\ b.thinking = Nowhere /\ b.started /\ ~b.finished
    BY <2>2, FinalizeGood DEF SameEnds
  <2> HIDE DEF b
  <2>4. Good(q) /\ Open(q.wire) = {} /\ q.started /\ ~q.finished
    BY <2>3, StopAllGood DEF SameEnds
  <2> HIDE DEF q
  <2>5. stopReason \notin {"none", "rejected"}
    BY DEF StopReasons
  <2> HIDE DEF stopReason
  <2>6. /\ IsTranslator(r) /\ r.finished /\ (r.started <=> q.started) /\ r.mode = q.mode
        /\ r.blocks = q.blocks /\ r.next = q.next /\ r.thinking = q.thinking
        /\ r.reasonKey = q.reasonKey /\ r.wire = TheEnd(q.wire, stopReason)
    BY <2>4 DEF Good, IsTranslator
  <2> HIDE DEF r
  <2> QED
    BY <1>2, <2>1, <2>4, <2>5, <2>6, EndGood
<1> QED
  BY <1>1, <1>2

LEMMA FailGood ==
  ASSUME NEW s, Good(s)
  PROVE  /\ Good(Fail(s))
         /\ (s.started => Fail(s).started)
         /\ Fail(s).finished
         /\ ~s.finished => Fail(s).wire.end = "error" /\ ~Fail(s).wire.after
<1>1. CASE s.finished
  BY <1>1 DEF Fail
<1>2. CASE ~s.finished
  <2> DEFINE b == FinalizeThinking(s, TRUE)
             q == StopAllBlocks(b)
             r == [q EXCEPT !.wire = TheEnd(q.wire, "error"), !.finished = TRUE]
  <2>1. Fail(s) = r
    BY <1>2 DEF Fail
  <2>2. Good(b) /\ b.thinking = Nowhere /\ ~b.finished /\ SameEnds(s, b)
    BY <1>2, FinalizeGood DEF SameEnds
  <2> HIDE DEF b
  <2>3. Good(q) /\ Open(q.wire) = {} /\ ~q.finished /\ SameEnds(b, q)
    BY <2>2, StopAllGood DEF SameEnds
  <2> HIDE DEF q
  <2>4. /\ IsTranslator(r) /\ r.finished /\ (r.started <=> q.started) /\ r.mode = q.mode
        /\ r.blocks = q.blocks /\ r.next = q.next /\ r.thinking = q.thinking
        /\ r.reasonKey = q.reasonKey /\ r.wire = TheEnd(q.wire, "error")
    BY <2>3 DEF Good, IsTranslator
  <2> HIDE DEF r
  <2>5. Good(r) /\ r.wire.end = "error" /\ ~r.wire.after
    BY <2>3, <2>4, EndGood
  <2> QED
    BY <2>1, <2>2, <2>3, <2>4, <2>5 DEF SameEnds
<1> QED
  BY <1>1, <1>2

\* Behind this the handler has returned.
LEMMA PipeFailedOk ==
  ASSUME NEW s, Good(s)
  PROVE  /\ PipeFailed(s).wire.ok
         /\ PipeFailed(s).wire.end # "none"
         /\ ~s.finished => /\ PipeFailed(s).wire.end \in {"error", "rejected"}
                           /\ ~PipeFailed(s).wire.after
<1>1. CASE s.started \/ s.finished
  BY <1>1, FailGood DEF PipeFailed, Good, Flagged
<1>2. CASE ~(s.started \/ s.finished)
  <2>1. /\ IsWire(s.wire) /\ s.wire.ok /\ ~s.wire.begun /\ s.wire.end = "none"
        /\ s.wire.blocks = <<>> /\ ~s.wire.after
    BY <1>2 DEF Good, Flagged, Counted
  <2>2. Open(s.wire) = {}
    BY <2>1 DEF Open
  <2>3. LET w == TheEnd(s.wire, "rejected")
        IN w.ok /\ w.end = "rejected" /\ ~w.after
    BY <2>1, <2>2, TheEndFields
  <2>4. PipeFailed(s).wire = TheEnd(s.wire, "rejected")
    BY <1>2 DEF PipeFailed, Good, IsTranslator
  <2> QED
    BY <2>3, <2>4
<1> QED
  BY <1>1, <1>2

-----------------------------------------------------------------------------
(***************************************************************************)
(* Every event leaves the translator good.                                 *)
(***************************************************************************)
LEMMA EventItems ==
  ASSUME NEW ev \in Events
  PROVE  /\ ev.type \in {"output_text.delta", "content_part.added", "content_part.done"}
              => ev.item \in Messages
         /\ ev.type \in {"arguments.delta", "arguments.done"} => ev.item \in Calls
         /\ ev.type \in {"reasoning_part.added", "reasoning.delta", "reasoning_part.done"}
              => ev.item \in Reasonings
<1>1. \A types, items, amounts, sigs :
        ev \in Ev(types, items, amounts, sigs) => ev.type \in types /\ ev.item \in items
  BY DEF Ev
<1>2. \A types, items, sigs :
        ev \in Whole(types, items, sigs) => ev.type \in types /\ ev.item \in items
  <2> SUFFICES ASSUME NEW types, NEW items, NEW sigs, ev \in Whole(types, items, sigs)
               PROVE  ev.type \in types /\ ev.item \in items
    OBVIOUS
  <2>1. PICK i \in items : ev \in Ev(types, {i}, {0, Full[i]}, sigs)
    BY DEF Whole
  <2> QED
    BY <1>1, <2>1
<1> QED
  BY <1>1, <1>2 DEF Events

LEMMA KeysOf ==
  /\ \A i \in Messages \cup Calls : Key(i) \in Keys /\ FinalKey(i) \in Keys
  /\ Messages \subseteq Items /\ Calls \subseteq Items /\ Reasonings \subseteq Items
<1>1. \A i \in Messages \cup Calls, b \in BOOLEAN : <<i, b>> \in Keys
  BY DEF Keys
<1>2. ASSUME NEW i \in Messages \cup Calls
      PROVE  Key(i) \in Keys /\ FinalKey(i) \in Keys
  <2>1. PICK b \in BOOLEAN : Key(i) = <<i, b>>
    BY Zenon DEF Key
  <2>2. (i \in Anonymous) \in BOOLEAN
    OBVIOUS
  <2>3. PICK c \in BOOLEAN : FinalKey(i) = <<i, c>>
    BY <2>2, Zenon DEF FinalKey
  <2> QED
    BY <1>1, <2>1, <2>3
<1> QED
  BY <1>2 DEF Items

StepGood == tr'.wire.ok /\ Good(tr') /\ phase' = "reading" /\ rest' = rest

\* The end has neither come nor gone.
Lasting(s) == Good(s) /\ (s.finished <=> tr.finished)

StepLive == StepGood /\ (tr'.finished <=> tr.finished)

LEMMA BecomesGood ==
  ASSUME NEW s, Good(s), Becomes(s), phase = "reading"
  PROVE  /\ tr'.wire.ok /\ Good(tr') /\ phase' = "reading" /\ rest' = rest
         /\ Lasting(s) => (tr'.finished <=> tr.finished)
BY DEF Becomes, Good, Flagged, Lasting

LEMMA TextEventsGood ==
  ASSUME NEW ev \in Events, Good(tr), phase = "reading",
         \/ Created(ev) \/ TextDelta(ev) \/ ContentPartAdded(ev) \/ ContentPartDone(ev)
         \/ MessageAdded(ev) \/ MessageDone(ev)
  PROVE  StepLive
<1> DEFINE started == EnsureStart(tr)
           k == Key(ev.item)
<1>1. Started(started) /\ Lasting(started)
  BY EnsureStartGood DEF Lasting, SameEnds, Started
<1> HIDE DEF started, k
<1>2. FALSE \in BOOLEAN
  OBVIOUS
<1>3. CASE Created(ev) \/ MessageAdded(ev)
  <2>1. Becomes(started)
    BY <1>3 DEF Created, MessageAdded, started
  <2> QED
    BY <1>1, <2>1, BecomesGood DEF Started, StepGood, StepLive, Lasting
<1>4. CASE TextDelta(ev)
  <2>1. k \in Keys
    BY <1>4, EventItems, KeysOf DEF TextDelta, k
  <2>2. Becomes(Feed(started, k, ev.n, FALSE))
    BY <1>4, Zenon DEF TextDelta, started, k
  <2>3. Lasting(Feed(started, k, ev.n, FALSE))
    BY <1>1, <1>2, <2>1, FeedGood, Zenon DEF Started, Lasting, SameEnds
  <2> QED
    BY <2>2, <2>3, BecomesGood, Zenon DEF StepGood, StepLive, Lasting, SameEnds, Started, Lasting
<1>5. CASE ContentPartAdded(ev)
  <2>1. k \in Keys
    BY <1>5, EventItems, KeysOf DEF ContentPartAdded, k
  <2>2. Becomes(EnsureBlock(started, k, FALSE))
    BY <1>5, Zenon DEF ContentPartAdded, started, k
  <2>3. Lasting(EnsureBlock(started, k, FALSE))
    BY <1>1, <1>2, <2>1, EnsureBlockGood, Zenon DEF Started, Lasting, SameEnds
  <2> QED
    BY <2>2, <2>3, BecomesGood, Zenon DEF StepGood, StepLive, Lasting, SameEnds, Started, Lasting
<1>6. CASE ContentPartDone(ev) \/ MessageDone(ev)
  <2> DEFINE fed == Feed(started, k, ev.n, FALSE)
             r == IF Emitted(tr, k) \/ ev.n = 0 THEN tr ELSE fed
  <2>1. k \in Keys
    BY <1>6, EventItems, KeysOf DEF ContentPartDone, MessageDone, k
  <2>2. Becomes(StopBlock(r, k))
    BY <1>6, Zenon DEF ContentPartDone, MessageDone, started, k
  <2>3. Lasting(fed)
    BY <1>1, <1>2, <2>1, FeedGood, Zenon DEF Started, Lasting, SameEnds
  <2> HIDE DEF fed
  <2>4. Lasting(r)
    BY <2>3 DEF Lasting, SameEnds, Started
  <2> HIDE DEF r
  <2>5. Lasting(StopBlock(r, k))
    BY <2>4, StopBlockGood DEF Lasting, SameEnds, Started
  <2> QED
    BY <2>2, <2>5, BecomesGood, Zenon DEF StepGood, StepLive, Lasting, SameEnds, Started, Lasting
<1> QED
  BY <1>3, <1>4, <1>5, <1>6 DEF Lasting, SameEnds, Started

LEMMA CallEventsGood ==
  ASSUME NEW ev \in Events, Good(tr), phase = "reading",
         CallAdded(ev) \/ ArgumentsDelta(ev) \/ CallDone(ev)
  PROVE  StepLive
<1> DEFINE started == EnsureStart(tr)
           k == Key(ev.item)
<1>1. Started(started) /\ Lasting(started)
  BY EnsureStartGood DEF Lasting, SameEnds, Started
<1>2. k \in Keys
  BY EventItems, KeysOf DEF CallAdded, ArgumentsDelta, CallDone
<1> HIDE DEF started, k
<1>3. TRUE \in BOOLEAN /\ FALSE \in BOOLEAN
  OBVIOUS
<1>4. CASE CallAdded(ev)
  <2> DEFINE s == EnsureBlock(started, k, TRUE)
  <2>1. Becomes(Feed(s, k, ev.n, TRUE))
    BY <1>4, Zenon DEF CallAdded, started, k
  <2>2. Started(s) /\ Lasting(s)
    BY <1>1, <1>2, <1>3, EnsureBlockGood, Zenon DEF Lasting, SameEnds, Started
  <2> HIDE DEF s
  <2>3. Lasting(Feed(s, k, ev.n, TRUE))
    BY <1>2, <1>3, <2>2, FeedGood, Zenon DEF Started, Lasting, SameEnds
  <2> QED
    BY <2>1, <2>3, BecomesGood, Zenon DEF StepGood, StepLive, Lasting, SameEnds, Started, Lasting
<1>5. CASE ArgumentsDelta(ev)
  <2>1. Becomes(Feed(started, k, ev.n, FALSE))
    BY <1>5, Zenon DEF ArgumentsDelta, started, k
  <2>2. Lasting(Feed(started, k, ev.n, FALSE))
    BY <1>1, <1>2, <1>3, FeedGood, Zenon DEF Started, Lasting, SameEnds
  <2> QED
    BY <2>1, <2>2, BecomesGood, Zenon DEF StepGood, StepLive, Lasting, SameEnds, Started, Lasting
<1>6. CASE CallDone(ev)
  <2>1. PICK named \in BOOLEAN :
          Becomes(StopBlock(IF Emitted(EnsureBlock(started, k, named), k)
                            THEN EnsureBlock(started, k, named)
                            ELSE Feed(EnsureBlock(started, k, named), k, ev.n, named), k))
    <3>1. (ev.type = "item.done") \in BOOLEAN
      OBVIOUS
    <3> QED
      BY <1>6, <3>1, Zenon DEF CallDone, started, k
  <2> DEFINE s == EnsureBlock(started, k, named)
             fed == Feed(s, k, ev.n, named)
             r == IF Emitted(s, k) THEN s ELSE fed
  <2>2. Started(s) /\ Lasting(s)
    BY <1>1, <1>2, EnsureBlockGood DEF Lasting, SameEnds, Started
  <2>3. Becomes(StopBlock(r, k))
    BY <2>1
  <2> HIDE DEF s
  <2>4. Lasting(fed)
    BY <1>2, <2>2, FeedGood DEF Started, Lasting, SameEnds
  <2> HIDE DEF fed
  <2>5. Lasting(r)
    BY <2>2, <2>4 DEF Started, Lasting, SameEnds
  <2> HIDE DEF r
  <2>6. Lasting(StopBlock(r, k))
    BY <2>5, StopBlockGood DEF Lasting, SameEnds, Started
  <2> QED
    BY <2>3, <2>6, BecomesGood, Zenon DEF StepGood, StepLive, Lasting, SameEnds, Started, Lasting
<1> QED
  BY <1>4, <1>5, <1>6 DEF Lasting, SameEnds, Started

LEMMA ReasoningEventsGood ==
  ASSUME NEW ev \in Events, Good(tr), phase = "reading",
         \/ ReasoningPartAdded(ev) \/ ReasoningDelta(ev) \/ ReasoningPartDone(ev)
         \/ ReasoningAdded(ev) \/ ReasoningDone(ev)
  PROVE  StepLive
<1> DEFINE started == EnsureStart(tr)
           i == ev.item
<1>1. Started(started) /\ Lasting(started)
  BY EnsureStartGood DEF Lasting, SameEnds, Started
<1>2. i \in Items
  BY EventItems, KeysOf
     DEF ReasoningPartAdded, ReasoningDelta, ReasoningPartDone, ReasoningAdded, ReasoningDone
<1> HIDE DEF started
<1>3. CASE ReasoningPartAdded(ev)
  <2>1. Becomes(StartThinkingPart(started, i))
    BY <1>3 DEF ReasoningPartAdded, started
  <2>2. Lasting(StartThinkingPart(started, i))
    BY <1>1, <1>2, StartThinkingGood DEF Started, Lasting, SameEnds
  <2> QED
    BY <2>1, <2>2, BecomesGood, Zenon DEF StepGood, StepLive, Lasting, SameEnds, Started, Lasting
<1>4. CASE ReasoningDelta(ev)
  <2> DEFINE r == IF started.thinking = Nowhere THEN StartThinkingPart(started, i)
                                                ELSE started
  <2>1. Becomes(ThinkingDelta(r, i, ev.n))
    BY <1>4 DEF ReasoningDelta, started
  <2>2. Lasting(r)
    BY <1>1, <1>2, StartThinkingGood DEF Started, Lasting, SameEnds
  <2> HIDE DEF r
  <2>3. Lasting(ThinkingDelta(r, i, ev.n))
    BY <2>2, ThinkingDeltaGood DEF Lasting, SameEnds, Started
  <2> QED
    BY <2>1, <2>3, BecomesGood, Zenon DEF StepGood, StepLive, Lasting, SameEnds, Started, Lasting
<1>5. CASE ReasoningPartDone(ev)
  <2> DEFINE r == [tr EXCEPT !.stopPending = TRUE]
  <2>1. Becomes(r)
    BY <1>5 DEF ReasoningPartDone
  <2>2. /\ IsTranslator(r) /\ r.mode = tr.mode /\ (r.started <=> tr.started)
        /\ (r.finished <=> tr.finished) /\ r.blocks = tr.blocks /\ r.next = tr.next
        /\ r.thinking = tr.thinking /\ r.wire = tr.wire /\ r.reasonKey = tr.reasonKey
    BY DEF Good, IsTranslator
  <2> HIDE DEF r
  <2>3. Lasting(r)
    BY <2>2, OtherFields DEF Good, Counted, Lasting, SameEnds, Started
  <2> QED
    BY <2>1, <2>3, BecomesGood, Zenon DEF StepGood, StepLive, Lasting, SameEnds, Started, Lasting
<1>6. CASE ReasoningAdded(ev)
  <2> DEFINE r == [started EXCEPT !.reasonKey = Key(i)]
  <2>1. Becomes(CaptureSignature(r, i, ev.sig))
    BY <1>6 DEF ReasoningAdded, started
  <2>2. Lasting(r)
    BY <1>1, <1>2, KeyedGood, ReasoningKeyFields DEF Started, Lasting, SameEnds
  <2> HIDE DEF r
  <2>3. Lasting(CaptureSignature(r, i, ev.sig))
    BY <1>2, <2>2, CaptureGood DEF Lasting, SameEnds, Started
  <2> QED
    BY <2>1, <2>3, BecomesGood, Zenon DEF StepGood, StepLive, Lasting, SameEnds, Started, Lasting
<1>7. CASE ReasoningDone(ev)
  <2> DEFINE q == [tr EXCEPT !.reasonKey = Key(i)]
             s == CaptureSignature(q, i, ev.sig)
             e == EmitFinalReasoning(s, Key(i), ev.n, ev.sig)
             f == FinalizeThinking(s, TRUE)
             r == IF s.thinking = Nowhere THEN e ELSE f
  <2>1. Becomes(r)
    BY <1>7 DEF ReasoningDone
  <2>2. Lasting(q)
    BY <1>2, KeyedGood, ReasoningKeyFields DEF Lasting, SameEnds, Started
  <2> HIDE DEF q
  <2>3. Lasting(s)
    BY <1>2, <2>2, CaptureGood DEF Lasting, SameEnds, Started
  <2> HIDE DEF s
  <2>4. Lasting(e) /\ Lasting(f)
    BY <1>2, <2>3, EmitFinalReasoningGood, FinalizeGood, ReasoningKeyFields
       DEF Lasting, SameEnds, Started
  <2> HIDE DEF e, f
  <2>5. Lasting(r)
    BY <2>4 DEF Lasting, SameEnds, Started
  <2> HIDE DEF r
  <2> QED
    BY <2>1, <2>5, BecomesGood, Zenon DEF StepGood, StepLive, Lasting, SameEnds, Started, Lasting
<1> QED
  BY <1>3, <1>4, <1>5, <1>6, <1>7 DEF Lasting, SameEnds, Started

LEMMA EndEventsGood ==
  ASSUME NEW ev \in Events, Good(tr), phase = "reading", Failed(ev) \/ DoneMark(ev)
  PROVE  StepGood
<1>1. CASE Failed(ev)
  <2>1. Becomes(Fail(tr)) /\ Good(Fail(tr))
    BY <1>1, FailGood DEF Failed
  <2> QED
    BY <2>1, BecomesGood, Zenon DEF StepGood
<1>2. CASE DoneMark(ev)
  <2> DEFINE f == Finish(tr, "none")
             r == IF tr.started THEN f ELSE tr
  <2>1. Becomes(r)
    BY <1>2 DEF DoneMark
  <2>2. Good(f)
    BY FinishGood
  <2> HIDE DEF f
  <2>3. Good(r)
    BY <2>2
  <2> HIDE DEF r
  <2> QED
    BY <2>1, <2>3, BecomesGood, Zenon DEF StepGood
<1> QED
  BY <1>1, <1>2

\* emitFinalOutput.
Continues(s, r) == Started(r) /\ (r.finished <=> s.finished)

LEMMA FinalItemsGood ==
  ASSUME NEW s, Started(s), NEW i \in Items
  PROVE  /\ Continues(s, EmitFinalReasoning(s, FinalKey(i), Full[i], i \in Signed))
         /\ i \in Calls => Continues(s, FinalCall(s, i))
         /\ i \in Messages => Continues(s, FinalMessage(s, i))
<1>1. Continues(s, EmitFinalReasoning(s, FinalKey(i), Full[i], i \in Signed))
  <2>1. (i \in Signed) \in BOOLEAN
    OBVIOUS
  <2>2. PICK sig \in BOOLEAN : EmitFinalReasoning(s, FinalKey(i), Full[i], i \in Signed)
                                 = EmitFinalReasoning(s, FinalKey(i), Full[i], sig)
    BY <2>1, Zenon
  <2> QED
    BY <2>2, EmitFinalReasoningGood, ReasoningKeyFields DEF Started, SameEnds, Continues
<1>2. TRUE \in BOOLEAN /\ FALSE \in BOOLEAN
  OBVIOUS
<1> DEFINE k == FinalKey(i)
<1>3. CASE i \in Calls
  <2> DEFINE q == EnsureBlock(s, k, TRUE)
             fed == Feed(q, k, Full[i], TRUE)
             r == IF Emitted(q, k) THEN q ELSE fed
  <2>1. k \in Keys
    BY <1>3, KeysOf
  <2>2. FinalCall(s, i) = StopBlock(r, k)
    BY Zenon DEF FinalCall
  <2> HIDE DEF k
  <2>3. Continues(s, q)
    BY <1>2, <2>1, EnsureBlockGood, Zenon DEF Continues, SameEnds
  <2> HIDE DEF q
  <2>4. Continues(s, fed)
    BY <1>2, <2>1, <2>3, FeedGood, Zenon DEF Continues, SameEnds
  <2> HIDE DEF fed
  <2>5. Continues(s, r)
    BY <2>3, <2>4
  <2> HIDE DEF r
  <2>6. Continues(s, StopBlock(r, k))
    BY <2>5, StopBlockGood DEF Started, SameEnds, Continues
  <2> QED
    BY <1>1, <1>3, <2>2, <2>6, ItemsAssumption, Zenon
<1>4. CASE i \in Messages
  <2> DEFINE fed == Feed(s, k, Full[i], FALSE)
             r == IF Emitted(s, k) THEN s ELSE fed
  <2>1. k \in Keys
    BY <1>4, KeysOf
  <2>2. FinalMessage(s, i) = s \/ FinalMessage(s, i) = StopBlock(r, k)
    BY Zenon DEF FinalMessage
  <2> HIDE DEF k
  <2>3. Continues(s, s) /\ Continues(s, fed)
    BY <1>2, <2>1, FeedGood, Zenon DEF Continues, SameEnds
  <2> HIDE DEF fed
  <2>4. Continues(s, r)
    BY <2>3
  <2> HIDE DEF r
  <2>5. Continues(s, StopBlock(r, k))
    BY <2>4, StopBlockGood DEF Started, SameEnds, Continues
  <2>6. i \notin Calls
    BY <1>4, ItemsAssumption
  <2> QED
    BY <1>1, <2>2, <2>3, <2>5, <2>6
<1>5. CASE i \notin Calls /\ i \notin Messages
  BY <1>1, <1>5
<1> QED
  BY <1>3, <1>4, <1>5

-----------------------------------------------------------------------------
(***************************************************************************)
(* The invariant of the specification.                                     *)
(***************************************************************************)
TranslatorInv ==
  /\ tr.wire.ok
  /\ phase # "over" => Good(tr)
  /\ phase = "over" => tr.wire.end # "none"
  /\ phase = "final" => tr.started
  /\ phase \in {"reading", "final", "over"}
  /\ reason \in StopReasons
  /\ rest \in Seq(Items)

LEMMA InitGood == Init => TranslatorInv
<1> SUFFICES ASSUME Init PROVE TranslatorInv
  OBVIOUS
<1>1. PICK mode \in Modes : tr = NewTranslator(mode)
  BY DEF Init, AnthropicInit
<1>2. /\ IsWire(tr.wire) /\ tr.wire.ok /\ ~tr.wire.begun /\ tr.wire.end = "none"
      /\ tr.wire.blocks = <<>> /\ ~tr.wire.after
  BY <1>1 DEF NewTranslator, NothingReceived, IsWire
<1>3. /\ IsTranslator(tr) /\ ~tr.started /\ ~tr.finished /\ tr.blocks = <<>>
      /\ tr.next = 0 /\ tr.thinking = Nowhere /\ tr.reasonKey = NoKey
  BY <1>1 DEF NewTranslator, IsTranslator
<1>4. tr.wire.blocks \in Seq(WireBlock) /\ Len(tr.wire.blocks) = 0 /\ DOMAIN tr.blocks = {}
  BY <1>2, <1>3
<1>5. Flagged(tr) /\ Counted(tr)
  BY <1>2, <1>3, <1>4, ReasoningKeyFields DEF Flagged, Counted
<1>6. Shown(tr) /\ Apart(tr) /\ Thinks(tr) /\ Accounted(tr)
  BY <1>3, <1>4 DEF Shown, Apart, Thinks, Accounted, Nowhere
<1>7. phase = "reading" /\ reason = "end_turn" /\ rest = <<>>
  BY DEF Init, AnthropicInit
<1> QED
  BY <1>2, <1>3, <1>5, <1>6, <1>7 DEF TranslatorInv, Good, StopReasons

LEMMA ProcessGood ==
  ASSUME TranslatorInv, NEW ev \in Events, Process(ev)
  PROVE  TranslatorInv'
<1>1. phase = "reading" /\ Good(tr)
  BY DEF Process, TranslatorInv
<1>2. CASE Completed(ev)
  <2>1. Started(EnsureStart(tr))
    BY <1>1, EnsureStartGood
  <2>2. tr' = EnsureStart(tr) /\ phase' = "final"
    BY <1>2 DEF Completed
  <2>3. rest' \in Seq(Items) /\ reason' \in StopReasons
    BY <1>2, BoundsAssumption DEF Completed, StopReasons
  <2> QED
    BY <2>1, <2>2, <2>3 DEF TranslatorInv, Started, Good, Flagged
<1>3. CASE Invalid(ev)
  BY <1>1, <1>3, PipeFailedOk DEF Invalid, TranslatorInv
<1>4. CASE ~Completed(ev) /\ ~Invalid(ev)
  <2>1. StepGood
    BY <1>1, <1>4, TextEventsGood, CallEventsGood, ReasoningEventsGood, EndEventsGood
       DEF Process, StepLive
  <2>2. reason' = reason
    BY <1>4 DEF Process, Becomes, Created, TextDelta, ReasoningPartAdded, ReasoningDelta,
                ReasoningPartDone, ContentPartAdded, ContentPartDone, MessageAdded,
                ReasoningAdded, CallAdded, ArgumentsDelta, CallDone, MessageDone,
                ReasoningDone, Failed, DoneMark
  <2> QED
    BY <2>1, <2>2 DEF StepGood, TranslatorInv
<1> QED
  BY <1>2, <1>3, <1>4

LEMMA FinalItemContinues ==
  ASSUME TranslatorInv, FinalItem
  PROVE  Continues(tr, tr') /\ rest' \in Seq(Items)
<1> DEFINE i == Head(rest)
<1>1. i \in Items /\ Tail(rest) \in Seq(Items)
  BY DEF FinalItem, TranslatorInv
<1>2. rest' \in Seq(Items)
  BY <1>1 DEF FinalItem
<1>3. tr' = IF i \in Reasonings THEN EmitFinalReasoning(tr, FinalKey(i), Full[i], i \in Signed)
            ELSE IF i \in Calls THEN FinalCall(tr, i)
            ELSE FinalMessage(tr, i)
  BY Zenon DEF FinalItem
<1> HIDE DEF i
<1>4. i \in Reasonings \/ i \in Calls \/ i \in Messages
  BY <1>1 DEF Items
<1>5. Started(tr)
  BY DEF FinalItem, TranslatorInv, Started
<1>6. Continues(tr, tr')
  BY <1>1, <1>3, <1>4, <1>5, FinalItemsGood, Zenon
<1> QED
  BY <1>2, <1>6

LEMMA FinalGood ==
  ASSUME TranslatorInv, FinalItem \/ FinishCompleted
  PROVE  TranslatorInv'
<1>1. phase = "final" /\ Started(tr)
  BY DEF FinalItem, FinishCompleted, TranslatorInv, Started
<1>2. CASE FinalItem
  <2>1. Started(tr') /\ rest' \in Seq(Items)
    BY <1>2, FinalItemContinues DEF Continues
  <2>2. phase' = phase /\ reason' = reason
    BY <1>2 DEF FinalItem
  <2> QED
    BY <1>1, <2>1, <2>2 DEF TranslatorInv, Started, Good, Flagged
<1>3. CASE FinishCompleted
  <2> DEFINE how == IF tr.hasTool THEN "tool_use" ELSE reason
  <2>1. how \in StopReasons \cup {"none"}
    BY DEF TranslatorInv, StopReasons
  <2>2. tr' = Finish(tr, how) /\ phase' = "reading" /\ rest' = rest /\ reason' = reason
    BY <1>3 DEF FinishCompleted
  <2> HIDE DEF how
  <2>3. Good(tr')
    BY <1>1, <2>1, <2>2, FinishGood DEF Started
  <2> QED
    BY <2>2, <2>3 DEF TranslatorInv, Good, Flagged
<1> QED
  BY <1>2, <1>3

LEMMA NextGood == TranslatorInv /\ [Next]_vars => TranslatorInv'
<1> SUFFICES ASSUME TranslatorInv, [Next]_vars PROVE TranslatorInv'
  OBVIOUS
<1>1. CASE UNCHANGED anthropicVars
  BY <1>1 DEF anthropicVars, TranslatorInv, Good, Flagged, Counted, Shown, Apart, Thinks,
              Accounted, IsWire, IsTranslator
<1>2. ASSUME NEW ev \in Events, Process(ev) PROVE TranslatorInv'
  BY <1>2, ProcessGood
<1>3. CASE FinalItem \/ FinishCompleted
  BY <1>3, FinalGood
<1>4. CASE UpstreamEOF
  <2>1. Good(tr)
    BY <1>4 DEF UpstreamEOF, TranslatorInv
  <2>2. PipeFailed(tr).wire.ok /\ PipeFailed(tr).wire.end # "none"
    BY <2>1, PipeFailedOk
  <2> QED
    BY <1>4, <2>1, <2>2 DEF UpstreamEOF, TranslatorInv, Good, Flagged
<1> QED
  BY <1>1, <1>2, <1>3, <1>4 DEF Next, vars, AnthropicNext

\* Whatever items, content and events the upstream sends, in whatever order and
\* number, the answer on /v1/messages is well formed.
THEOREM AnthropicWellFormed == Spec => []AnswerWellFormed
<1>1. Spec => []TranslatorInv
  BY InitGood, NextGood, PTL DEF Spec
<1>2. TranslatorInv => AnswerWellFormed
  BY DEF TranslatorInv, AnswerWellFormed
<1> QED
  BY <1>1, <1>2, PTL

-----------------------------------------------------------------------------
(***************************************************************************)
(* The chunks of the chat endpoint.                                        *)
(***************************************************************************)
IsChunks(w) == DOMAIN w = {"role", "tools", "named", "got", "end", "marked", "ok", "after"}

IsChat(s) == DOMAIN s = {"sentRole", "terminal", "tools", "nextTool", "wire"}

\* The flags and the chunks agree, and "[DONE]" has not been written.
Talking(s) ==
  /\ IsChat(s) /\ IsChunks(s.wire)
  /\ s.wire.ok /\ ~s.wire.marked
  /\ (s.wire.role <=> s.sentRole)
  /\ s.terminal <=> s.wire.end # "none"
  /\ s.wire.after => s.terminal
  /\ s.wire.tools \in Seq(Calls)

Announced(s, i) ==
  /\ s.tools[i] \in Tool /\ s.tools[i].identitySent
  /\ s.tools[i].index \in 1 .. Len(s.wire.tools)
  /\ s.wire.tools[s.tools[i].index] = i

\* Each registered call has been announced, at an index of its own: between
\* two events no call is registered that the client has not heard of.
ChatGood(s) ==
  /\ Talking(s)
  /\ s.nextTool = Len(s.wire.tools)
  /\ DOMAIN s.tools \subseteq Calls
  /\ \A i \in DOMAIN s.tools : Announced(s, i)

\* In the middle of an event call i may be registered and not announced yet.
Announcing(s, i) ==
  /\ Talking(s)
  /\ DOMAIN s.tools \subseteq Calls
  /\ i \in DOMAIN s.tools /\ s.tools[i] \in Tool
  /\ \A j \in DOMAIN s.tools \ {i} : Announced(s, j)
  /\ IF s.tools[i].identitySent
     THEN Announced(s, i) /\ s.nextTool = Len(s.wire.tools)
     ELSE s.tools[i].index = Len(s.wire.tools) + 1 /\ s.nextTool = Len(s.wire.tools) + 1

-----------------------------------------------------------------------------
(***************************************************************************)
(* The client's automaton.                                                 *)
(***************************************************************************)
LEMMA ChunkFields ==
  ASSUME NEW w, IsChunks(w), NEW role, NEW i, NEW n
  PROVE  /\ IsChunks(Chunk(w, role, i, n))
         /\ Chunk(w, role, i, n).role
         /\ Chunk(w, role, i, n).tools = w.tools
         /\ Chunk(w, role, i, n).end = w.end
         /\ Chunk(w, role, i, n).after => w.after \/ w.end # "none"
         /\ (Chunk(w, role, i, n).marked <=> w.marked)
         /\ w.ok /\ ~w.marked /\ (role <=> ~w.role) => Chunk(w, role, i, n).ok
BY DEF IsChunks, Chunk

LEMMA ToolChunkFields ==
  ASSUME NEW w, IsChunks(w), NEW role, NEW index, NEW identity, NEW named, NEW i, NEW n
  PROVE  /\ IsChunks(ToolChunk(w, role, index, identity, named, i, n))
         /\ ToolChunk(w, role, index, identity, named, i, n).role
         /\ ToolChunk(w, role, index, identity, named, i, n).tools
              = IF identity THEN Append(w.tools, i) ELSE w.tools
         /\ ToolChunk(w, role, index, identity, named, i, n).end = w.end
         /\ ToolChunk(w, role, index, identity, named, i, n).after => w.after \/ w.end # "none"
         /\ (ToolChunk(w, role, index, identity, named, i, n).marked <=> w.marked)
         /\ /\ w.ok /\ ~w.marked /\ (role <=> ~w.role)
            /\ identity => index = Len(w.tools) + 1
            /\ ~identity => index \in 1 .. Len(w.tools) /\ w.tools[index] = i
            => ToolChunk(w, role, index, identity, named, i, n).ok
<1> DEFINE c == Chunk(w, role, i, n)
<1>1. /\ IsChunks(c) /\ c.role /\ c.tools = w.tools /\ c.end = w.end
      /\ (c.marked <=> w.marked) /\ (c.after => w.after \/ w.end # "none")
      /\ w.ok /\ ~w.marked /\ (role <=> ~w.role) => c.ok
  BY ChunkFields
<1> HIDE DEF c
<1> QED
  BY <1>1 DEF IsChunks, ToolChunk, c

LEMMA FinishChunkFields ==
  ASSUME NEW w, IsChunks(w), NEW how, how # "none"
  PROVE  /\ IsChunks(FinishChunk(w, how))
         /\ (FinishChunk(w, how).role <=> w.role)
         /\ FinishChunk(w, how).tools = w.tools
         /\ FinishChunk(w, how).end = IF w.end = "none" THEN how ELSE w.end
         /\ FinishChunk(w, how).after => w.after \/ w.end # "none"
         /\ (FinishChunk(w, how).marked <=> w.marked)
         /\ w.ok /\ ~w.marked => FinishChunk(w, how).ok
BY DEF IsChunks, FinishChunk

LEMMA DoneChunkFields ==
  ASSUME NEW w, IsChunks(w), w.ok, ~w.marked, w.end # "none"
  PROVE  /\ DoneChunk(w).ok /\ DoneChunk(w).marked
         /\ DoneChunk(w).end = w.end /\ (DoneChunk(w).after <=> w.after)
BY DEF IsChunks, DoneChunk

-----------------------------------------------------------------------------
(***************************************************************************)
(* The translator.                                                         *)
(***************************************************************************)
LEMMA SendChunkGood ==
  ASSUME NEW s, ChatGood(s), NEW i, NEW n
  PROVE  ChatGood(SendChunk(s, i, n)) /\ (SendChunk(s, i, n).terminal <=> s.terminal)
<1> DEFINE v == Chunk(s.wire, ~s.sentRole, i, n)
           r == [s EXCEPT !.sentRole = TRUE, !.wire = v]
<1>1. SendChunk(s, i, n) = r
  BY DEF SendChunk
<1>2. /\ IsChunks(v) /\ v.role /\ v.tools = s.wire.tools /\ v.end = s.wire.end
      /\ ~v.marked /\ v.ok /\ (v.after => s.wire.after \/ s.wire.end # "none")
  BY DEF ChatGood, Talking, Chunk, IsChunks
<1> HIDE DEF v
<1>3. /\ IsChat(r) /\ r.sentRole /\ r.wire = v /\ (r.terminal <=> s.terminal)
      /\ r.tools = s.tools /\ r.nextTool = s.nextTool
  BY DEF ChatGood, Talking, IsChat
<1> HIDE DEF r
<1> QED
  BY <1>1, <1>2, <1>3 DEF ChatGood, Talking, Announced

\* A registered call gets new flags; its index stays.
LEMMA UpdatedAnnouncing ==
  ASSUME NEW s, NEW i, Announcing(s, i), NEW tool \in Tool,
         tool.index = s.tools[i].index, (tool.identitySent <=> s.tools[i].identitySent)
  PROVE  /\ Announcing(Updated(s, i, tool), i)
         /\ Updated(s, i, tool).tools[i] = tool
         /\ (Updated(s, i, tool).terminal <=> s.terminal)
<1> DEFINE tools == [s.tools EXCEPT ![i] = tool]
           r == [s EXCEPT !.tools = tools]
<1>1. Updated(s, i, tool) = r
  BY DEF Updated
<1>2. /\ DOMAIN tools = DOMAIN s.tools /\ tools[i] = tool
      /\ \A j \in DOMAIN s.tools \ {i} : tools[j] = s.tools[j]
  BY DEF Announcing
<1> HIDE DEF tools
<1>3. /\ IsChat(r) /\ (r.sentRole <=> s.sentRole) /\ r.wire = s.wire
      /\ (r.terminal <=> s.terminal) /\ r.tools = tools /\ r.nextTool = s.nextTool
  BY DEF Announcing, Talking, IsChat
<1> HIDE DEF r
<1>4. Talking(r)
  BY <1>3 DEF Announcing, Talking
<1>5. \A j \in DOMAIN s.tools \ {i} : Announced(r, j)
  BY <1>2, <1>3 DEF Announcing, Announced
<1>6. s.tools[i].identitySent => Announced(r, i)
  BY <1>2, <1>3 DEF Announcing, Announced
<1> QED
  BY <1>1, <1>2, <1>3, <1>4, <1>5, <1>6 DEF Announcing

LEMMA EnsureToolAnnouncing ==
  ASSUME NEW s, ChatGood(s), NEW i \in Calls, NEW named \in BOOLEAN
  PROVE  /\ Announcing(EnsureTool(s, i, named), i)
         /\ (EnsureTool(s, i, named).terminal <=> s.terminal)
<1>1. CASE i \in DOMAIN s.tools
  <2> DEFINE tool == [s.tools[i] EXCEPT !.named = s.tools[i].named \/ named]
  <2>1. EnsureTool(s, i, named) = Updated(s, i, tool)
    BY <1>1 DEF EnsureTool
  <2>2. Announcing(s, i)
    BY <1>1 DEF ChatGood, Announcing, Announced
  <2>3. /\ tool \in Tool /\ tool.index = s.tools[i].index
        /\ (tool.identitySent <=> s.tools[i].identitySent)
    BY <2>2 DEF Announcing, Tool
  <2> HIDE DEF tool
  <2> QED
    BY <2>1, <2>2, <2>3, UpdatedAnnouncing
<1>2. CASE i \notin DOMAIN s.tools
  <2> DEFINE tool == [index |-> s.nextTool + 1, named |-> named, sawArgs |-> FALSE,
                      finalized |-> FALSE, identitySent |-> FALSE]
             tools == [x \in DOMAIN s.tools \cup {i} |-> IF x = i THEN tool ELSE s.tools[x]]
             r == [s EXCEPT !.tools = tools, !.nextTool = s.nextTool + 1]
  <2>1. EnsureTool(s, i, named) = r
    BY <1>2 DEF EnsureTool
  <2>2. s.nextTool \in Nat /\ s.nextTool = Len(s.wire.tools)
    BY DEF ChatGood, Talking
  <2>3. tool \in Tool /\ tool.index = s.nextTool + 1 /\ ~tool.identitySent
    BY <2>2 DEF Tool
  <2> HIDE DEF tool
  <2>4. /\ DOMAIN tools = DOMAIN s.tools \cup {i} /\ tools[i] = tool
        /\ \A j \in DOMAIN s.tools : tools[j] = s.tools[j]
    BY <1>2
  <2> HIDE DEF tools
  <2>5. /\ IsChat(r) /\ (r.sentRole <=> s.sentRole) /\ r.wire = s.wire
        /\ (r.terminal <=> s.terminal) /\ r.tools = tools /\ r.nextTool = s.nextTool + 1
    BY DEF ChatGood, Talking, IsChat
  <2> HIDE DEF r
  <2>6. Talking(r)
    BY <2>5 DEF ChatGood, Talking
  <2>7. \A j \in DOMAIN r.tools \ {i} : Announced(r, j)
    BY <2>4, <2>5 DEF ChatGood, Announced
  <2> QED
    BY <2>1, <2>2, <2>3, <2>4, <2>5, <2>6, <2>7 DEF Announcing, ChatGood
<1> QED
  BY <1>1, <1>2

LEMMA SendToolGood ==
  ASSUME NEW s, NEW i, Announcing(s, i), NEW n
  PROVE  ChatGood(SendTool(s, i, n)) /\ (SendTool(s, i, n).terminal <=> s.terminal)
<1> DEFINE tool == s.tools[i]
           sentTool == [tool EXCEPT !.identitySent = TRUE]
           tools == [s.tools EXCEPT ![i] = sentTool]
           v == ToolChunk(s.wire, ~s.sentRole, tool.index, ~tool.identitySent,
                          tool.named, i, n)
           u == [s EXCEPT !.tools = tools]
           r == [u EXCEPT !.sentRole = TRUE, !.wire = v]
<1>1. SendTool(s, i, n) = r
  BY DEF SendTool, Updated, Announcing, Talking, IsChat
<1>2. /\ IsChunks(v) /\ v.role /\ v.end = s.wire.end /\ ~v.marked /\ v.ok
      /\ (v.after => s.wire.after \/ s.wire.end # "none")
      /\ v.tools = IF ~tool.identitySent THEN Append(s.wire.tools, i) ELSE s.wire.tools
  <2>1. (~s.sentRole) \in BOOLEAN /\ (~tool.identitySent) \in BOOLEAN
    OBVIOUS
  <2>2. PICK role \in BOOLEAN, identity \in BOOLEAN :
          /\ role <=> ~s.sentRole
          /\ identity <=> ~tool.identitySent
          /\ v = ToolChunk(s.wire, role, tool.index, identity, tool.named, i, n)
    BY <2>1, Zenon
  <2> HIDE DEF v
  <2>3. /\ IsChunks(s.wire) /\ s.wire.ok /\ ~s.wire.marked /\ (role <=> ~s.wire.role)
        /\ identity => tool.index = Len(s.wire.tools) + 1
        /\ ~identity => tool.index \in 1 .. Len(s.wire.tools) /\ s.wire.tools[tool.index] = i
    BY <2>2 DEF Announcing, Announced, Talking
  <2> QED
    BY <2>2, <2>3, ToolChunkFields
<1>3. sentTool \in Tool /\ sentTool.identitySent /\ sentTool.index = tool.index
  BY DEF Announcing, Tool
<1> HIDE DEF v, sentTool
<1>4. /\ DOMAIN tools = DOMAIN s.tools /\ tools[i] = sentTool
      /\ \A j \in DOMAIN s.tools \ {i} : tools[j] = s.tools[j]
  BY DEF Announcing
<1> HIDE DEF tools
<1>5. /\ IsChat(r) /\ r.sentRole /\ r.wire = v /\ (r.terminal <=> s.terminal)
      /\ r.tools = tools /\ r.nextTool = s.nextTool
  BY DEF Announcing, Talking, IsChat
<1> HIDE DEF r
<1>6. i \in Calls /\ s.wire.tools \in Seq(Calls)
  BY DEF Announcing, Talking
<1>7. /\ v.tools \in Seq(Calls)
      /\ Len(v.tools) = s.nextTool
      /\ tool.index \in 1 .. Len(v.tools) /\ v.tools[tool.index] = i
      /\ \A b \in 1 .. Len(s.wire.tools) : b \in 1 .. Len(v.tools)
                                           /\ v.tools[b] = s.wire.tools[b]
  <2>1. CASE tool.identitySent
    BY <1>2, <1>6, <2>1 DEF Announcing, Announced
  <2>2. CASE ~tool.identitySent
    BY <1>2, <1>6, <2>2, AppendProperties DEF Announcing
  <2> QED
    BY <2>1, <2>2
<1>8. Talking(r)
  BY <1>2, <1>5, <1>7 DEF Announcing, Talking
<1>9. Announced(r, i)
  BY <1>3, <1>4, <1>5, <1>7 DEF Announced
<1>10. \A j \in DOMAIN s.tools \ {i} : Announced(r, j)
  BY <1>4, <1>5, <1>7 DEF Announcing, Announced
<1> QED
  BY <1>1, <1>4, <1>5, <1>7, <1>8, <1>9, <1>10 DEF ChatGood, Announcing

LEMMA SawArgsAnnouncing ==
  ASSUME NEW s, NEW i, Announcing(s, i)
  PROVE  Announcing(SawArgs(s, i), i) /\ (SawArgs(s, i).terminal <=> s.terminal)
<1> DEFINE tool == [s.tools[i] EXCEPT !.sawArgs = TRUE]
<1>1. SawArgs(s, i) = Updated(s, i, tool)
  BY DEF SawArgs
<1>2. /\ tool \in Tool /\ tool.index = s.tools[i].index
      /\ (tool.identitySent <=> s.tools[i].identitySent)
  BY DEF Announcing, Tool
<1> HIDE DEF tool
<1> QED
  BY <1>1, <1>2, UpdatedAnnouncing

\* A call that has not been announced has not seen arguments nor been finalized.
LEMMA EnsureToolFresh ==
  ASSUME NEW s, ChatGood(s), NEW i \in Calls, NEW named \in BOOLEAN
  PROVE  LET tool == EnsureTool(s, i, named).tools[i]
         IN ~tool.identitySent => ~tool.sawArgs /\ ~tool.finalized
<1>1. CASE i \in DOMAIN s.tools
  <2> DEFINE tool == [s.tools[i] EXCEPT !.named = s.tools[i].named \/ named]
  <2>1. EnsureTool(s, i, named) = Updated(s, i, tool)
    BY <1>1 DEF EnsureTool
  <2>2. Announcing(s, i) /\ s.tools[i].identitySent
    BY <1>1 DEF ChatGood, Announcing, Announced
  <2>3. /\ tool \in Tool /\ tool.index = s.tools[i].index
        /\ (tool.identitySent <=> s.tools[i].identitySent)
    BY <2>2 DEF Announcing, Tool
  <2> HIDE DEF tool
  <2>4. Updated(s, i, tool).tools[i] = tool
    BY <2>2, <2>3, UpdatedAnnouncing
  <2> QED
    BY <2>1, <2>2, <2>3, <2>4
<1>2. CASE i \notin DOMAIN s.tools
  BY <1>2 DEF EnsureTool, ChatGood, Talking, IsChat
<1> QED
  BY <1>1, <1>2

LEMMA FinalizeToolGood ==
  ASSUME NEW s, NEW i, Announcing(s, i), NEW n,
         ~s.tools[i].identitySent => ~s.tools[i].sawArgs /\ ~s.tools[i].finalized
  PROVE  ChatGood(FinalizeTool(s, i, n)) /\ (FinalizeTool(s, i, n).terminal <=> s.terminal)
<1> DEFINE tool == [s.tools[i] EXCEPT !.finalized = TRUE]
           r == Updated(s, i, tool)
           sent0 == SendTool(SawArgs(r, i), i, n)
<1>1. FinalizeTool(s, i, n) = IF s.tools[i].finalized THEN s
                              ELSE IF s.tools[i].sawArgs THEN r ELSE sent0
  BY DEF FinalizeTool
<1>2. /\ tool \in Tool /\ tool.index = s.tools[i].index
      /\ (tool.identitySent <=> s.tools[i].identitySent)
  BY DEF Announcing, Tool
<1> HIDE DEF tool
<1>3. Announcing(r, i) /\ r.tools[i] = tool /\ (r.terminal <=> s.terminal)
  BY <1>2, UpdatedAnnouncing
<1> HIDE DEF r
<1>4. ChatGood(sent0) /\ (sent0.terminal <=> s.terminal)
  BY <1>3, SawArgsAnnouncing, SendToolGood
<1> HIDE DEF sent0
<1>5. s.tools[i].identitySent => ChatGood(s) /\ ChatGood(r)
  BY <1>2, <1>3 DEF Announcing, ChatGood
<1> QED
  BY <1>1, <1>3, <1>4, <1>5

LEMMA EndedGood ==
  ASSUME NEW s, ChatGood(s), NEW how, how # "none", NEW r, IsChat(r), r.terminal,
         (r.sentRole <=> s.sentRole), r.tools = s.tools, r.nextTool = s.nextTool,
         r.wire = FinishChunk(s.wire, how)
  PROVE  /\ ChatGood(r) /\ r.wire.end # "none"
         /\ ~s.terminal => r.wire.end = how /\ ~r.wire.after
<1>1. IsChunks(s.wire) /\ s.wire.ok /\ ~s.wire.marked /\ (s.wire.role <=> s.sentRole)
  BY DEF ChatGood, Talking
<1>2. /\ IsChunks(r.wire) /\ (r.wire.role <=> s.wire.role)
      /\ r.wire.tools = s.wire.tools /\ r.wire.end # "none"
      /\ ~r.wire.marked /\ r.wire.ok
      /\ r.wire.end = IF s.wire.end = "none" THEN how ELSE s.wire.end
      /\ (r.wire.after => s.wire.after \/ s.wire.end # "none")
  BY <1>1, FinishChunkFields
<1>3. Talking(r)
  BY <1>1, <1>2 DEF ChatGood, Talking
<1>4. ~s.terminal => r.wire.end = how /\ ~r.wire.after
  BY <1>2 DEF ChatGood, Talking
<1> QED
  BY <1>2, <1>3, <1>4 DEF ChatGood, Announced

LEMMA ErrorChunkGood ==
  ASSUME NEW s, ChatGood(s)
  PROVE  /\ ChatGood(ErrorChunk(s)) /\ ErrorChunk(s).wire.end # "none"
         /\ ErrorChunk(s).terminal
         /\ ~s.terminal => ErrorChunk(s).wire.end = "error" /\ ~ErrorChunk(s).wire.after
<1> DEFINE v == FinishChunk(s.wire, "error")
           r == [s EXCEPT !.terminal = TRUE, !.wire = v]
<1>1. ErrorChunk(s) = r
  BY DEF ErrorChunk
<1> HIDE DEF v
<1>2. /\ IsChat(r) /\ r.terminal /\ (r.sentRole <=> s.sentRole) /\ r.tools = s.tools
      /\ r.nextTool = s.nextTool /\ r.wire = v
  BY DEF ChatGood, Talking, IsChat
<1> HIDE DEF r
<1> QED
  BY <1>1, <1>2, EndedGood DEF v

LEMMA FinishChatGood ==
  ASSUME NEW s, ChatGood(s), NEW how
  PROVE  /\ ChatGood(FinishChat(s, how)) /\ FinishChat(s, how).terminal
         /\ ~s.terminal => ~FinishChat(s, how).wire.after
<1>1. CASE s.terminal
  BY <1>1 DEF FinishChat
<1>2. CASE ~s.terminal
  <2> DEFINE tools == IF DOMAIN s.tools = {} THEN "stop" ELSE "tool_calls"
             last == IF how = "none" THEN tools ELSE how
             v == FinishChunk(s.wire, last)
             r == [s EXCEPT !.terminal = TRUE, !.wire = v]
  <2>1. FinishChat(s, how) = r
    BY <1>2 DEF FinishChat
  <2>2. last # "none"
    OBVIOUS
  <2> HIDE DEF v, last
  <2>3. /\ IsChat(r) /\ r.terminal /\ (r.sentRole <=> s.sentRole) /\ r.tools = s.tools
        /\ r.nextTool = s.nextTool /\ r.wire = v
    BY DEF ChatGood, Talking, IsChat
  <2> HIDE DEF r
  <2> QED
    BY <1>2, <2>1, <2>2, <2>3, EndedGood DEF v
<1> QED
  BY <1>1, <1>2

\* Behind this the handler has returned.
LEMMA CloseChatDone ==
  ASSUME NEW s, ChatGood(s)
  PROVE  /\ CloseChat(s).wire.ok /\ CloseChat(s).wire.marked
         /\ CloseChat(s).wire.end # "none"
         /\ IF s.terminal THEN /\ CloseChat(s).wire.end = s.wire.end
                               /\ CloseChat(s).wire.after <=> s.wire.after
            ELSE CloseChat(s).wire.end = "error" /\ ~CloseChat(s).wire.after
<1> DEFINE r == IF s.terminal THEN s ELSE ErrorChunk(s)
           v == DoneChunk(r.wire)
<1>1. /\ ChatGood(r) /\ r.wire.end # "none"
      /\ IF s.terminal THEN r = s ELSE r.wire.end = "error" /\ ~r.wire.after
  BY ErrorChunkGood DEF ChatGood, Talking
<1>2. CloseChat(s) = [r EXCEPT !.wire = v]
  BY DEF CloseChat
<1> HIDE DEF r
<1>3. v.ok /\ v.marked /\ v.end = r.wire.end /\ (v.after <=> r.wire.after)
  BY <1>1, DoneChunkFields DEF ChatGood, Talking
<1> HIDE DEF v
<1> QED
  BY <1>1, <1>2, <1>3 DEF ChatGood, Talking, IsChat

-----------------------------------------------------------------------------
(***************************************************************************)
(* The invariant of the specification.                                     *)
(***************************************************************************)
ChatInv ==
  /\ ~chatOver => ChatGood(chat)
  /\ chatOver => chat.wire.ok /\ chat.wire.marked /\ chat.wire.end # "none"

LEMMA ChatInitGood == Init => ChatInv
<1> SUFFICES ASSUME Init PROVE ChatInv
  OBVIOUS
<1>1. chat = NewChatTranslator /\ ~chatOver
  BY DEF Init, ChatInit
<1>2. /\ IsChat(chat) /\ IsChunks(chat.wire) /\ chat.wire.ok /\ ~chat.wire.marked
      /\ ~chat.wire.role /\ ~chat.sentRole /\ ~chat.terminal
      /\ chat.wire.tools = <<>> /\ chat.nextTool = 0 /\ chat.tools = <<>>
      /\ chat.wire.end = "none" /\ ~chat.wire.after
  BY <1>1 DEF NewChatTranslator, NoChunks, IsChat, IsChunks
<1>3. chat.wire.tools \in Seq(Calls) /\ Len(chat.wire.tools) = 0 /\ DOMAIN chat.tools = {}
  BY <1>2
<1> QED
  BY <1>1, <1>2, <1>3 DEF ChatInv, ChatGood, Talking

\* An event that is no end leaves the chat translator as far as it was.
ChatLasting(s) == ChatGood(s) /\ (s.terminal <=> chat.terminal)

LEMMA ChatEventLasting ==
  ASSUME ChatGood(chat), NEW ev \in Events,
         \/ ChatCreated(ev) \/ ChatText(ev) \/ ChatCallAdded(ev) \/ ChatArguments(ev)
         \/ ChatCallDone(ev) \/ ChatIgnored(ev)
  PROVE  /\ ChatGood(chat') /\ (chat'.terminal <=> chat.terminal) /\ chatOver' = chatOver
         /\ ev.type \notin Verdicts /\ ev.type # "[DONE]"
<1>1. ASSUME NEW s, ChatLasting(s), ChatBecomes(s)
      PROVE  ChatGood(chat') /\ (chat'.terminal <=> chat.terminal) /\ chatOver' = chatOver
  BY <1>1 DEF ChatBecomes, ChatLasting
<1>2. ev.type \notin Verdicts /\ ev.type # "[DONE]"
  BY DEF ChatCreated, ChatText, ChatCallAdded, ChatArguments, ChatCallDone, ChatIgnored,
         Verdicts, PartBegins
<1>3. CASE ChatCreated(ev) \/ ChatText(ev) \/ ChatIgnored(ev)
  <2>1. \A i, n : ChatLasting(SendChunk(chat, i, n))
    BY SendChunkGood DEF ChatLasting
  <2>2. ChatLasting(chat)
    BY DEF ChatLasting
  <2>3. PICK s : ChatLasting(s) /\ ChatBecomes(s)
    BY <1>3, <2>1, <2>2 DEF ChatCreated, ChatText, ChatIgnored
  <2> QED
    BY <1>1, <1>2, <2>3
<1>4. CASE ChatCallAdded(ev)
  <2>1. PICK named \in BOOLEAN :
          ChatBecomes(SendTool(EnsureTool(chat, ev.item, named), ev.item, 0))
    BY <1>4, Zenon DEF ChatCallAdded
  <2> DEFINE s == EnsureTool(chat, ev.item, named)
  <2>2. Announcing(s, ev.item) /\ (s.terminal <=> chat.terminal)
    BY <1>4, EnsureToolAnnouncing DEF ChatCallAdded
  <2>3. ChatBecomes(SendTool(s, ev.item, 0))
    BY <2>1
  <2> HIDE DEF s
  <2>4. ChatLasting(SendTool(s, ev.item, 0))
    BY <2>2, SendToolGood DEF ChatLasting
  <2> QED
    BY <1>1, <1>2, <2>3, <2>4
<1>5. CASE ChatArguments(ev)
  <2>1. PICK named \in BOOLEAN :
          ChatBecomes(SendTool(SawArgs(EnsureTool(chat, ev.item, named), ev.item),
                               ev.item, ev.n))
    BY <1>5, Zenon DEF ChatArguments
  <2> DEFINE s == EnsureTool(chat, ev.item, named)
             r == SawArgs(s, ev.item)
  <2>2. Announcing(s, ev.item) /\ (s.terminal <=> chat.terminal)
    BY <1>5, EventItems, EnsureToolAnnouncing DEF ChatArguments
  <2>3. ChatBecomes(SendTool(r, ev.item, ev.n))
    BY <2>1
  <2> HIDE DEF s
  <2>4. Announcing(r, ev.item) /\ (r.terminal <=> chat.terminal)
    BY <2>2, SawArgsAnnouncing
  <2> HIDE DEF r
  <2>5. ChatLasting(SendTool(r, ev.item, ev.n))
    BY <2>4, SendToolGood DEF ChatLasting
  <2> QED
    BY <1>1, <1>2, <2>3, <2>5
<1>6. CASE ChatCallDone(ev)
  <2>1. (ev.type = "item.done") \in BOOLEAN /\ ev.item \in Calls
    BY <1>6 DEF ChatCallDone
  <2>2. PICK named \in BOOLEAN :
          ChatBecomes(FinalizeTool(EnsureTool(chat, ev.item, named), ev.item, ev.n))
    BY <1>6, <2>1, Zenon DEF ChatCallDone
  <2> DEFINE s == EnsureTool(chat, ev.item, named)
  <2>3. Announcing(s, ev.item) /\ (s.terminal <=> chat.terminal)
    BY <2>1, EnsureToolAnnouncing
  <2>4. ~s.tools[ev.item].identitySent
          => ~s.tools[ev.item].sawArgs /\ ~s.tools[ev.item].finalized
    BY <2>1, EnsureToolFresh
  <2>5. ChatBecomes(FinalizeTool(s, ev.item, ev.n))
    BY <2>2
  <2> HIDE DEF s
  <2>6. ChatLasting(FinalizeTool(s, ev.item, ev.n))
    BY <2>3, <2>4, FinalizeToolGood DEF ChatLasting
  <2> QED
    BY <1>1, <1>2, <2>5, <2>6
<1> QED
  BY <1>3, <1>4, <1>5, <1>6

LEMMA ChatEventGood ==
  ASSUME ChatInv, NEW ev \in Events, ChatProcess(ev)
  PROVE  ChatInv'
<1>1. ~chatOver /\ ChatGood(chat)
  BY DEF ChatProcess, ChatInv
<1>2. ASSUME NEW s, ChatGood(s), ChatBecomes(s) PROVE ChatInv'
  BY <1>1, <1>2 DEF ChatBecomes, ChatInv
<1>3. CASE \/ ChatCreated(ev) \/ ChatText(ev) \/ ChatCallAdded(ev) \/ ChatArguments(ev)
           \/ ChatCallDone(ev) \/ ChatIgnored(ev)
  BY <1>1, <1>3, ChatEventLasting DEF ChatInv
<1>4. CASE ChatCompleted(ev) \/ ChatDoneMark(ev)
  BY <1>1, <1>2, <1>4, FinishChatGood DEF ChatCompleted, ChatDoneMark
<1>5. CASE ChatFailed(ev)
  BY <1>1, <1>2, <1>5, ErrorChunkGood DEF ChatFailed
<1>6. CASE ChatInvalid(ev)
  BY <1>1, <1>6, CloseChatDone DEF ChatInvalid, ChatInv
<1> QED
  BY <1>3, <1>4, <1>5, <1>6 DEF ChatProcess

LEMMA ChatWholeBodyGood == ChatInv /\ ChatWholeBody => ChatInv'
<1> SUFFICES ASSUME ChatInv, ChatWholeBody PROVE ChatInv'
  OBVIOUS
<1>1. ~chatOver /\ chat = NewChatTranslator /\ chatOver'
  BY DEF ChatWholeBody
<1>2. PICK incomplete \in BOOLEAN :
        chat' = [chat EXCEPT
                   !.wire = DoneChunk([FinishChunk(Chunk(chat.wire, TRUE, NoItem, 0),
                                                   ChatReason(incomplete))
                                       EXCEPT !.got = [i \in Items |-> ChatTranslated(i)],
                                              !.named = Calls])]
  BY Zenon DEF ChatWholeBody
<1> DEFINE how == ChatReason(incomplete)
           c == Chunk(chat.wire, TRUE, NoItem, 0)
           f == FinishChunk(c, how)
           w == [f EXCEPT !.got = [i \in Items |-> ChatTranslated(i)], !.named = Calls]
           v == DoneChunk(w)
<1>3. how # "none"
  BY DEF ChatReason
<1>4. /\ IsChunks(chat.wire) /\ chat.wire.ok /\ ~chat.wire.marked /\ ~chat.wire.role
      /\ IsChat(chat)
  BY <1>1 DEF NewChatTranslator, NoChunks, IsChunks, IsChat
<1>5. IsChunks(c) /\ c.ok /\ ~c.marked
  BY <1>4 DEF Chunk, IsChunks
<1> HIDE DEF how, c
<1>6. IsChunks(f) /\ f.ok /\ ~f.marked /\ f.end # "none"
  BY <1>3, <1>5, FinishChunkFields
<1> HIDE DEF f
<1>7. IsChunks(w) /\ w.ok /\ ~w.marked /\ w.end # "none"
  BY <1>6 DEF IsChunks
<1> HIDE DEF w
<1>8. v.ok /\ v.marked /\ v.end # "none"
  BY <1>7, DoneChunkFields
<1>9. chat' = [chat EXCEPT !.wire = v]
  BY <1>2 DEF v, w, f, c, how
<1> HIDE DEF v
<1> QED
  BY <1>1, <1>4, <1>8, <1>9 DEF ChatInv, IsChat

LEMMA ChatNextGood == ChatInv /\ [Next]_vars => ChatInv'
<1> SUFFICES ASSUME ChatInv, [Next]_vars PROVE ChatInv'
  OBVIOUS
<1>1. CASE UNCHANGED chatVars
  BY <1>1 DEF chatVars, ChatInv, ChatGood, Talking, Announced, IsChat, IsChunks
<1>2. ASSUME NEW ev \in Events, ChatProcess(ev) PROVE ChatInv'
  BY <1>2, ChatEventGood
<1>3. CASE ChatEOF
  BY <1>3, CloseChatDone DEF ChatEOF, ChatInv
<1>4. CASE ChatWholeBody
  BY <1>4, ChatWholeBodyGood
<1> QED
  BY <1>1, <1>2, <1>3, <1>4 DEF Next, vars, ChatNext

\* Whatever items, content and events the upstream sends, in whatever order and
\* number, the answer on /v1/chat/completions is well formed, and ended by one
\* "[DONE]" when the handler returns.
THEOREM ChatAnswerWellFormed == Spec => []ChatWellFormed
<1>1. Spec => []ChatInv
  BY ChatInitGood, ChatNextGood, PTL DEF Spec
<1>2. ChatInv => ChatWellFormed
  BY DEF ChatInv, ChatWellFormed, ChatGood, Talking
<1> QED
  BY <1>1, <1>2, PTL

-----------------------------------------------------------------------------
(***************************************************************************)
(* The end of an answer is honest.  While an orderly upstream's answer is  *)
(* read, the translator has ended exactly if the upstream has; so the only *)
(* event that finds it ended is "[DONE]", which changes nothing then.      *)
(***************************************************************************)
AnthropicHonest ==
  /\ ~tr.wire.after
  /\ phase = "reading" => (tr.finished <=> verdict # "none")
  /\ phase = "final" => ~tr.finished /\ verdict = "ok"
  /\ tr.wire.end \in StopReasons => verdict = "ok"
  /\ verdict = "failed" => tr.wire.end \in {"none", "error"}

ChatHonest ==
  /\ ~chat.wire.after
  /\ ~chatOver => (chat.terminal <=> verdict # "none")
  /\ chat.wire.end \in {"stop", "length", "tool_calls"} => verdict = "ok"
  /\ verdict = "failed" => chat.wire.end \in {"none", "error"}

\* The translator of the other endpoint is not at work.
HonestInv ==
  /\ TranslatorInv /\ ChatInv
  /\ endpoint \in {"messages", "chat"}
  /\ endpoint = "chat" => tr.wire.end = "none" /\ ~tr.wire.after
  /\ endpoint = "messages" => chat.wire.end = "none" /\ ~chat.wire.after
  /\ orderly /\ endpoint = "messages" => AnthropicHonest
  /\ orderly /\ endpoint = "chat" => ChatHonest

\* An orderly upstream says its verdict once, and "[DONE]" behind it only.
LEMMA OrderlySends ==
  ASSUME orderly, NEW ev, Sends(ev)
  PROVE  /\ ev.type = "[DONE]" <=> verdict # "none"
         /\ ev.type \in {"completed", "incomplete"} => verdict' = "ok"
         /\ ev.type = "failed" => verdict' = "failed"
         /\ ev.type \notin Verdicts => verdict' = verdict
         /\ orderly' = orderly
BY DEF Sends, MaySend, Verdicts

LEMMA AnthropicEventHonest ==
  ASSUME TranslatorInv, AnthropicHonest, orderly, NEW ev \in Events, Process(ev), Sends(ev)
  PROVE  AnthropicHonest'
<1>1. phase = "reading" /\ Good(tr)
  BY DEF Process, TranslatorInv
<1>2. tr.finished <=> ev.type = "[DONE]"
  BY <1>1, OrderlySends DEF AnthropicHonest
<1>3. CASE Completed(ev)
  <2>1. ev.type \in {"completed", "incomplete"} /\ tr' = EnsureStart(tr) /\ phase' = "final"
    BY <1>3 DEF Completed
  <2>2. Good(tr') /\ ~tr'.finished
    BY <1>1, <1>2, <2>1, EnsureStartGood DEF Started
  <2>3. verdict' = "ok"
    BY <2>1, OrderlySends
  <2> QED
    BY <2>1, <2>2, <2>3 DEF AnthropicHonest, Good, Flagged
<1>4. CASE Invalid(ev)
  <2>1. ev.type = "invalid" /\ tr' = PipeFailed(tr) /\ phase' = "over"
    BY <1>4 DEF Invalid
  <2>2. tr'.wire.end \in {"error", "rejected"} /\ ~tr'.wire.after
    BY <1>1, <1>2, <2>1, PipeFailedOk
  <2>3. verdict' = "none"
    BY <2>1, OrderlySends DEF Verdicts
  <2> QED
    BY <2>1, <2>2, <2>3 DEF AnthropicHonest, StopReasons
<1>5. CASE Failed(ev)
  <2>1. ev.type = "failed" /\ tr' = Fail(tr) /\ phase' = "reading"
    BY <1>1, <1>5 DEF Failed, Becomes
  <2>2. tr'.finished /\ tr'.wire.end = "error" /\ ~tr'.wire.after
    BY <1>1, <1>2, <2>1, FailGood
  <2>3. verdict' = "failed"
    BY <2>1, OrderlySends
  <2> QED
    BY <2>1, <2>2, <2>3 DEF AnthropicHonest, StopReasons
<1>6. CASE DoneMark(ev)
  <2>1. tr' = tr /\ phase' = phase
    BY <1>2, <1>6 DEF DoneMark, Becomes, Finish
  <2>2. verdict' = verdict
    BY <1>6, OrderlySends DEF DoneMark, Verdicts
  <2> QED
    BY <2>1, <2>2 DEF AnthropicHonest
<1>7. CASE ~Completed(ev) /\ ~Invalid(ev) /\ ~Failed(ev) /\ ~DoneMark(ev)
  <2>1. StepLive
    BY <1>1, <1>7, TextEventsGood, CallEventsGood, ReasoningEventsGood DEF Process
  <2>2. ev.type \notin Verdicts /\ ev.type # "[DONE]"
    BY <1>7 DEF Process, Verdicts, Created, TextDelta, ReasoningPartAdded, ReasoningDelta,
                ReasoningPartDone, ContentPartAdded, ContentPartDone, MessageAdded,
                ReasoningAdded, CallAdded, ArgumentsDelta, CallDone, MessageDone,
                ReasoningDone
  <2>3. verdict' = "none"
    BY <2>2, OrderlySends
  <2>4. ~tr'.finished /\ phase' = "reading" /\ Good(tr')
    BY <1>2, <2>1, <2>2 DEF StepLive, StepGood
  <2> QED
    BY <2>3, <2>4 DEF AnthropicHonest, Good, Flagged, StopReasons
<1> QED
  BY <1>3, <1>4, <1>5, <1>6, <1>7

LEMMA AnthropicRestHonest ==
  ASSUME TranslatorInv, AnthropicHonest, FinalItem \/ FinishCompleted \/ UpstreamEOF,
         UNCHANGED upstreamVars
  PROVE  AnthropicHonest'
<1>1. Good(tr) /\ verdict' = verdict
  BY DEF TranslatorInv, FinalItem, FinishCompleted, UpstreamEOF, upstreamVars
<1>2. CASE FinalItem
  <2>1. phase = "final" /\ phase' = "final"
    BY <1>2 DEF FinalItem
  <2>2. Good(tr') /\ ~tr'.finished
    BY <1>2, <2>1, FinalItemContinues DEF Continues, Started, AnthropicHonest
  <2> QED
    BY <1>1, <2>1, <2>2 DEF AnthropicHonest, Good, Flagged
<1>3. CASE FinishCompleted
  <2> DEFINE how == IF tr.hasTool THEN "tool_use" ELSE reason
  <2>1. how \in StopReasons \cup {"none"}
    BY DEF TranslatorInv, StopReasons
  <2>2. tr' = Finish(tr, how) /\ phase = "final" /\ phase' = "reading"
    BY <1>3 DEF FinishCompleted
  <2> HIDE DEF how
  <2>3. ~tr.finished /\ verdict = "ok"
    BY <2>2 DEF AnthropicHonest
  <2>4. tr'.finished /\ ~tr'.wire.after
    BY <1>1, <2>1, <2>2, <2>3, FinishGood
  <2> QED
    BY <1>1, <2>2, <2>3, <2>4 DEF AnthropicHonest
<1>4. CASE UpstreamEOF /\ tr.finished
  BY <1>1, <1>4 DEF UpstreamEOF, AnthropicHonest
<1>5. CASE UpstreamEOF /\ ~tr.finished
  <2>1. tr' = PipeFailed(tr) /\ phase = "reading" /\ phase' = "over"
    BY <1>5 DEF UpstreamEOF
  <2>2. tr'.wire.end \in {"error", "rejected"} /\ ~tr'.wire.after
    BY <1>1, <1>5, <2>1, PipeFailedOk
  <2>3. verdict = "none"
    BY <1>5, <2>1 DEF AnthropicHonest
  <2> QED
    BY <1>1, <2>1, <2>2, <2>3 DEF AnthropicHonest, StopReasons
<1> QED
  BY <1>2, <1>3, <1>4, <1>5

LEMMA ChatEventHonest ==
  ASSUME ChatInv, ChatHonest, orderly, NEW ev \in Events, ChatProcess(ev), Sends(ev)
  PROVE  ChatHonest'
<1>1. ~chatOver /\ ChatGood(chat)
  BY DEF ChatProcess, ChatInv
<1>2. chat.terminal <=> ev.type = "[DONE]"
  BY <1>1, OrderlySends DEF ChatHonest
<1>3. CASE \/ ChatCreated(ev) \/ ChatText(ev) \/ ChatCallAdded(ev) \/ ChatArguments(ev)
           \/ ChatCallDone(ev) \/ ChatIgnored(ev)
  <2>1. /\ ChatGood(chat') /\ (chat'.terminal <=> chat.terminal)
        /\ ev.type \notin Verdicts /\ ev.type # "[DONE]"
    BY <1>1, <1>3, ChatEventLasting
  <2>2. verdict' = "none" /\ ~chat'.terminal
    BY <1>2, <2>1, OrderlySends
  <2> QED
    BY <2>1, <2>2 DEF ChatHonest, ChatGood, Talking
<1>4. CASE ChatCompleted(ev)
  <2>1. PICK how : chat' = FinishChat(chat, how) /\ chatOver' = chatOver
    BY <1>4 DEF ChatCompleted, ChatBecomes
  <2>2. ev.type \in {"completed", "incomplete"}
    BY <1>4 DEF ChatCompleted
  <2>3. verdict' = "ok"
    BY <2>2, OrderlySends
  <2>4. chat'.terminal /\ ~chat'.wire.after
    BY <1>1, <1>2, <2>1, <2>2, FinishChatGood
  <2> QED
    BY <1>1, <2>3, <2>4 DEF ChatHonest
<1>5. CASE ChatDoneMark(ev)
  <2>1. chat' = chat /\ chatOver' = chatOver
    BY <1>2, <1>5 DEF ChatDoneMark, ChatBecomes, FinishChat
  <2>2. verdict' = verdict
    BY <1>5, OrderlySends DEF ChatDoneMark, Verdicts
  <2> QED
    BY <2>1, <2>2 DEF ChatHonest
<1>6. CASE ChatFailed(ev)
  <2>1. ev.type = "failed" /\ chat' = ErrorChunk(chat) /\ chatOver' = chatOver
    BY <1>6 DEF ChatFailed, ChatBecomes
  <2>2. chat'.terminal /\ chat'.wire.end = "error" /\ ~chat'.wire.after
    BY <1>1, <1>2, <2>1, ErrorChunkGood
  <2>3. verdict' = "failed"
    BY <2>1, OrderlySends
  <2> QED
    BY <2>2, <2>3 DEF ChatHonest
<1>7. CASE ChatInvalid(ev)
  <2>1. ev.type = "invalid" /\ chat' = CloseChat(chat) /\ chatOver'
    BY <1>7 DEF ChatInvalid
  <2>2. chat'.wire.end = "error" /\ ~chat'.wire.after
    BY <1>1, <1>2, <2>1, CloseChatDone
  <2>3. verdict' = "none"
    BY <2>1, OrderlySends DEF Verdicts
  <2> QED
    BY <2>1, <2>2, <2>3 DEF ChatHonest
<1> QED
  BY <1>3, <1>4, <1>5, <1>6, <1>7 DEF ChatProcess

LEMMA ChatEOFHonest ==
  ASSUME ChatInv, ChatHonest, ChatEOF, UNCHANGED upstreamVars
  PROVE  ChatHonest'
<1>1. /\ ~chatOver /\ chatOver' /\ ChatGood(chat) /\ chat' = CloseChat(chat)
      /\ verdict' = verdict
  BY DEF ChatInv, ChatEOF, upstreamVars
<1>2. CASE chat.terminal
  <2>1. chat'.wire.end = chat.wire.end /\ (chat'.wire.after <=> chat.wire.after)
    BY <1>1, <1>2, CloseChatDone
  <2> QED
    BY <1>1, <2>1 DEF ChatHonest
<1>3. CASE ~chat.terminal
  <2>1. chat'.wire.end = "error" /\ ~chat'.wire.after
    BY <1>1, <1>3, CloseChatDone
  <2> QED
    BY <1>1, <1>3, <2>1 DEF ChatHonest
<1> QED
  BY <1>2, <1>3

LEMMA ChatWholeBodyHonest ==
  ASSUME ChatWholeBody
  PROVE  ChatHonest'
<1>1. ~chat'.wire.after
  <2>1. IsChunks(chat.wire) /\ chat.wire.end = "none" /\ ~chat.wire.after /\ IsChat(chat)
    BY DEF ChatWholeBody, NewChatTranslator, NoChunks, IsChunks, IsChat
  <2>2. PICK incomplete \in BOOLEAN :
          chat' = [chat EXCEPT
                     !.wire = DoneChunk([FinishChunk(Chunk(chat.wire, TRUE, NoItem, 0),
                                                     ChatReason(incomplete))
                                         EXCEPT !.got = [i \in Items |-> ChatTranslated(i)],
                                                !.named = Calls])]
    BY Zenon DEF ChatWholeBody
  <2> DEFINE c == Chunk(chat.wire, TRUE, NoItem, 0)
             f == FinishChunk(c, ChatReason(incomplete))
             w == [f EXCEPT !.got = [i \in Items |-> ChatTranslated(i)], !.named = Calls]
             v == DoneChunk(w)
  <2>3. IsChunks(c) /\ c.end = "none" /\ ~c.after
    BY <2>1 DEF Chunk, IsChunks
  <2> HIDE DEF c
  <2>4. IsChunks(f) /\ ~f.after
    BY <2>3 DEF FinishChunk, IsChunks
  <2> HIDE DEF f
  <2>5. IsChunks(w) /\ ~w.after
    BY <2>4 DEF IsChunks
  <2> HIDE DEF w
  <2>6. ~v.after
    BY <2>5 DEF DoneChunk, IsChunks
  <2>7. chat' = [chat EXCEPT !.wire = v]
    BY <2>2 DEF w, f, c
  <2> HIDE DEF v
  <2> QED
    BY <2>1, <2>6, <2>7 DEF IsChat
<1>2. chatOver' /\ verdict' = "ok"
  BY DEF ChatWholeBody
<1> QED
  BY <1>1, <1>2 DEF ChatHonest

LEMMA HonestInit == Init => HonestInv
<1> SUFFICES ASSUME Init PROVE HonestInv
  OBVIOUS
<1>1. TranslatorInv /\ ChatInv
  BY InitGood, ChatInitGood
<1>2. /\ endpoint \in {"messages", "chat"} /\ verdict = "none" /\ phase = "reading"
      /\ chat = NewChatTranslator /\ ~chatOver
  BY DEF Init, UpstreamInit, AnthropicInit, ChatInit
<1>3. PICK mode \in Modes : tr = NewTranslator(mode)
  BY DEF Init, AnthropicInit
<1>4. tr.wire.end = "none" /\ ~tr.wire.after /\ ~tr.finished
  BY <1>3 DEF NewTranslator, NothingReceived
<1>5. chat.wire.end = "none" /\ ~chat.wire.after /\ ~chat.terminal
  BY <1>2 DEF NewChatTranslator, NoChunks
<1> QED
  BY <1>1, <1>2, <1>4, <1>5 DEF HonestInv, AnthropicHonest, ChatHonest, StopReasons

\* An event that is processed is one the upstream sends.
LEMMA ProcessSends ==
  ASSUME NEW ev
  PROVE  (Process(ev) => Sends(ev)) /\ (ChatProcess(ev) => Sends(ev))
BY DEF Process, ChatProcess

LEMMA HonestNext == HonestInv /\ [Next]_vars => HonestInv'
<1> SUFFICES ASSUME HonestInv, [Next]_vars PROVE HonestInv'
  OBVIOUS
<1>1. TranslatorInv' /\ ChatInv'
  BY NextGood, ChatNextGood DEF HonestInv
<1>2. CASE UNCHANGED vars
  BY <1>1, <1>2 DEF vars, upstreamVars, anthropicVars, chatVars, HonestInv, AnthropicHonest,
                    ChatHonest
<1>3. CASE endpoint = "messages" /\ AnthropicNext /\ UNCHANGED chatVars /\ UNCHANGED endpoint
  <2>1. orderly' = orderly
    BY <1>3, ProcessSends DEF AnthropicNext, Sends, upstreamVars
  <2>2. orderly => AnthropicHonest'
    <3> SUFFICES ASSUME orderly PROVE AnthropicHonest'
      OBVIOUS
    <3>1. TranslatorInv /\ AnthropicHonest
      BY <1>3 DEF HonestInv
    <3>2. ASSUME NEW ev \in Events, Process(ev), Sends(ev) PROVE AnthropicHonest'
      BY <3>1, <3>2, AnthropicEventHonest
    <3>3. CASE (FinalItem \/ FinishCompleted \/ UpstreamEOF) /\ UNCHANGED upstreamVars
      BY <3>1, <3>3, AnthropicRestHonest
    <3> QED
      BY <1>3, <3>2, <3>3, ProcessSends DEF AnthropicNext
  <2>3. chat' = chat /\ endpoint' = endpoint
    BY <1>3 DEF chatVars
  <2> QED
    BY <1>1, <1>3, <2>1, <2>2, <2>3 DEF HonestInv
<1>4. CASE endpoint = "chat" /\ ChatNext /\ UNCHANGED anthropicVars /\ UNCHANGED endpoint
  <2>1. orderly' = orderly
    BY <1>4, ProcessSends DEF ChatNext, ChatWholeBody, Sends, upstreamVars
  <2>2. orderly => ChatHonest'
    <3> SUFFICES ASSUME orderly PROVE ChatHonest'
      OBVIOUS
    <3>1. ChatInv /\ ChatHonest
      BY <1>4 DEF HonestInv
    <3>2. ASSUME NEW ev \in Events, ChatProcess(ev), Sends(ev) PROVE ChatHonest'
      BY <3>1, <3>2, ChatEventHonest
    <3>3. CASE ChatEOF /\ UNCHANGED upstreamVars
      BY <3>1, <3>3, ChatEOFHonest
    <3>4. CASE ChatWholeBody
      BY <3>4, ChatWholeBodyHonest
    <3> QED
      BY <1>4, <3>2, <3>3, <3>4, ProcessSends DEF ChatNext
  <2>3. tr' = tr /\ endpoint' = endpoint
    BY <1>4 DEF anthropicVars
  <2> QED
    BY <1>1, <1>4, <2>1, <2>2, <2>3 DEF HonestInv
<1> QED
  BY <1>2, <1>3, <1>4 DEF Next

\* On both endpoints, for any answer and any number of events: behind the end
\* nothing is written unless the upstream itself goes on behind its terminal
\* event, an answer ends normally only on the upstream's word, an error of the
\* upstream reaches the client as one, and no handler returns without an end.
THEOREM EndsAreHonest == Spec => []EndIsHonest
<1>1. Spec => []HonestInv
  BY HonestInit, HonestNext, PTL DEF Spec
<1>2. HonestInv => EndIsHonest
  <2> SUFFICES ASSUME HonestInv PROVE EndIsHonest
    OBVIOUS
  <2>1. /\ phase = "over" => tr.wire.end # "none"
        /\ chatOver => chat.wire.end # "none"
    BY DEF HonestInv, TranslatorInv, ChatInv
  <2>2. "none" \notin StopReasons
    BY DEF StopReasons
  <2>3. CASE endpoint = "messages"
    BY <2>1, <2>2, <2>3 DEF HonestInv, AnthropicHonest, EndIsHonest
  <2>4. CASE endpoint = "chat"
    BY <2>1, <2>2, <2>4 DEF HonestInv, ChatHonest, EndIsHonest
  <2> QED
    BY <2>3, <2>4 DEF HonestInv
<1> QED
  BY <1>1, <1>2, PTL

-----------------------------------------------------------------------------
(***************************************************************************)
(* Types.  The helpers keep a translator's record typed, whatever has been *)
(* written to the client.                                                  *)
(***************************************************************************)
Typed(s) ==
  /\ IsTranslator(s)
  /\ s.mode \in Modes
  /\ s.started \in BOOLEAN /\ s.finished \in BOOLEAN
  /\ s.hasTool \in BOOLEAN /\ s.stopPending \in BOOLEAN
  /\ DOMAIN s.blocks \subseteq Keys
  /\ \A k \in DOMAIN s.blocks : s.blocks[k] \in Block
  /\ s.next \in Nat
  /\ s.thinking \in 0 .. s.next
  /\ s.signature \in Reasonings \cup {NoItem}
  /\ s.reasonKey \in ReasoningKeys \cup {NoKey}
  /\ s.completed \subseteq ReasoningKeys

\* The two keys of a reasoning item, both other than none.
LEMMA ReasoningKeysOf ==
  ASSUME NEW i \in Reasonings
  PROVE  /\ Key(i) \in ReasoningKeys /\ FinalKey(i) \in ReasoningKeys
         /\ Key(i) # NoKey /\ FinalKey(i) # NoKey
<1>1. (i \in Anonymous) \in BOOLEAN /\ FALSE \in BOOLEAN
  OBVIOUS
<1>2. i # NoItem
  BY ItemsAssumption DEF Items
<1>3. Key(i) # NoKey /\ FinalKey(i) # NoKey
  BY <1>2, ReasoningKeyFields
<1> QED
  BY <1>1, <1>3 DEF Key, FinalKey, ReasoningKeys

LEMMA EnsureStartTyped ==
  ASSUME NEW s, Typed(s)
  PROVE  Typed(EnsureStart(s))
BY DEF Typed, IsTranslator, EnsureStart

LEMMA FinalizeTyped ==
  ASSUME NEW s, Typed(s), NEW clear
  PROVE  Typed(FinalizeThinking(s, clear))
<1> DEFINE signed == IF s.signature = NoItem THEN s.wire
                     ELSE SignatureDelta(s.wire, s.thinking, s.signature)
           w == BlocksStop(signed, {s.thinking})
           done == s.completed \cup ({s.reasonKey} \ {NoKey})
           sig == IF clear THEN NoItem ELSE s.signature
           key == IF clear THEN NoKey ELSE s.reasonKey
           r == [s EXCEPT !.wire = w, !.completed = done, !.thinking = Nowhere,
                          !.stopPending = FALSE, !.signature = sig, !.reasonKey = key]
<1>1. FinalizeThinking(s, clear) \in {s, [s EXCEPT !.signature = NoItem], r}
  BY DEF FinalizeThinking
<1>2. done \subseteq ReasoningKeys
  BY DEF Typed
<1>3. sig \in Reasonings \cup {NoItem} /\ key \in ReasoningKeys \cup {NoKey}
  BY DEF Typed
<1> HIDE DEF w, done, sig, key
<1>4. Typed(r)
  BY <1>2, <1>3 DEF Typed, IsTranslator, Nowhere
<1>5. Typed([s EXCEPT !.signature = NoItem])
  BY DEF Typed, IsTranslator
<1> HIDE DEF r
<1> QED
  BY <1>1, <1>4, <1>5

LEMMA EnsureThinkingTyped ==
  ASSUME NEW s, Typed(s)
  PROVE  Typed(EnsureThinkingBlock(s))
<1> DEFINE q == EnsureStart(s)
           v == BlockStart(q.wire, q.next + 1, "thinking", q.reasonKey[1], FALSE)
           r == [q EXCEPT !.wire = v, !.next = q.next + 1, !.thinking = q.next + 1,
                          !.stopPending = FALSE]
<1>1. Typed(q)
  BY EnsureStartTyped
<1>2. EnsureThinkingBlock(s) = s \/ EnsureThinkingBlock(s) = r
  BY DEF EnsureThinkingBlock
<1> HIDE DEF q, v
<1>3. Typed(r)
  BY <1>1 DEF Typed, IsTranslator
<1> HIDE DEF r
<1> QED
  BY <1>2, <1>3

LEMMA KeyedTyped ==
  ASSUME NEW s, Typed(s), NEW k \in ReasoningKeys
  PROVE  Typed([s EXCEPT !.reasonKey = k])
BY DEF Typed, IsTranslator

LEMMA StartThinkingTyped ==
  ASSUME NEW s, Typed(s), NEW i \in Reasonings
  PROVE  Typed(StartThinkingPart(s, i))
<1> DEFINE q == IF s.thinking # Nowhere /\ s.stopPending
                THEN FinalizeThinking(s, FALSE) ELSE s
           r == [q EXCEPT !.reasonKey = Key(i)]
<1>1. Typed(q)
  BY FinalizeTyped
<1>2. StartThinkingPart(s, i) = s \/ StartThinkingPart(s, i) = EnsureThinkingBlock(r)
  BY DEF StartThinkingPart
<1> HIDE DEF q
<1>3. Typed(r)
  BY <1>1, ReasoningKeysOf, KeyedTyped
<1> HIDE DEF r
<1> QED
  BY <1>2, <1>3, EnsureThinkingTyped

LEMMA WrittenTyped ==
  ASSUME NEW s, Typed(s), NEW w
  PROVE  Typed([s EXCEPT !.wire = w])
BY DEF Typed, IsTranslator

LEMMA ThinkingDeltaTyped ==
  ASSUME NEW s, Typed(s), NEW i, NEW n
  PROVE  Typed(ThinkingDelta(s, i, n))
<1> DEFINE q == EnsureThinkingBlock(s)
           v == BlockDelta(q.wire, q.thinking, "thinking", i, n)
<1>1. Typed(q)
  BY EnsureThinkingTyped
<1>2. ThinkingDelta(s, i, n) = s \/ ThinkingDelta(s, i, n) = [q EXCEPT !.wire = v]
  BY DEF ThinkingDelta
<1> HIDE DEF q, v
<1> QED
  BY <1>1, <1>2, WrittenTyped

LEMMA CaptureTyped ==
  ASSUME NEW s, Typed(s), NEW i \in Reasonings, NEW sig
  PROVE  Typed(CaptureSignature(s, i, sig))
<1> DEFINE k == Key(i)
<1>1. k \in ReasoningKeys
  BY ReasoningKeysOf
<1>2. CaptureSignature(s, i, sig) \in {s, [s EXCEPT !.signature = i, !.reasonKey = k]}
  BY DEF CaptureSignature
<1> HIDE DEF k
<1>3. Typed([s EXCEPT !.signature = i, !.reasonKey = k])
  BY <1>1 DEF Typed, IsTranslator
<1> QED
  BY <1>2, <1>3

LEMMA EmitFinalReasoningTyped ==
  ASSUME NEW s, Typed(s), NEW k \in ReasoningKeys, NEW n, NEW sig
  PROVE  Typed(EmitFinalReasoning(s, k, n, sig))
<1> DEFINE summary == IF s.mode = "omitted" THEN 0 ELSE n
           signature == IF sig THEN k[1] ELSE s.signature
           q == [s EXCEPT !.reasonKey = k, !.signature = signature]
           e == EnsureThinkingBlock(q)
           d == ThinkingDelta(e, k[1], summary)
           r == FinalizeThinking(d, TRUE)
<1>1. EmitFinalReasoning(s, k, n, sig) = s \/ EmitFinalReasoning(s, k, n, sig) = r
  BY DEF EmitFinalReasoning
<1>2. signature \in Reasonings \cup {NoItem}
  BY DEF Typed, ReasoningKeys
<1> HIDE DEF signature, summary
<1>3. Typed(q)
  BY <1>2 DEF Typed, IsTranslator
<1> HIDE DEF q
<1>4. Typed(d)
  BY <1>3, EnsureThinkingTyped, ThinkingDeltaTyped
<1> HIDE DEF d
<1>5. Typed(r)
  BY <1>4, FinalizeTyped
<1> HIDE DEF r
<1> QED
  BY <1>1, <1>5

LEMMA EnsureBlockTyped ==
  ASSUME NEW s, Typed(s), NEW k \in Keys, NEW named
  PROVE  /\ Typed(EnsureBlock(s, k, named))
         /\ k \in DOMAIN EnsureBlock(s, k, named).blocks
<1> DEFINE q == FinishThinkingBeforeContent(s)
           v == BlockStart(q.wire, q.next + 1, KindOf(k), k[1], named)
           new == [index |-> q.next + 1, emitted |-> FALSE, stopped |-> FALSE]
           blocks == [x \in DOMAIN q.blocks \cup {k} |-> IF x = k THEN new ELSE q.blocks[x]]
           tool == q.hasTool \/ KindOf(k) = "tool"
           r == [q EXCEPT !.wire = v, !.next = q.next + 1, !.blocks = blocks,
                          !.hasTool = tool]
<1>1. Typed(q)
  BY FinalizeTyped DEF FinishThinkingBeforeContent
<1>2. EnsureBlock(s, k, named) = IF k \in DOMAIN q.blocks THEN q ELSE r
  BY DEF EnsureBlock, Registered
<1>3. tool \in BOOLEAN
  OBVIOUS
<1> HIDE DEF q, v, tool
<1>4. new \in Block
  BY <1>1 DEF Typed, Block
<1> HIDE DEF new
<1>5. /\ DOMAIN blocks = DOMAIN q.blocks \cup {k}
      /\ \A x \in DOMAIN blocks : blocks[x] \in Block
  BY <1>1, <1>4 DEF Typed
<1> HIDE DEF blocks
<1>6. /\ IsTranslator(r) /\ r.mode = q.mode /\ r.started = q.started
      /\ r.finished = q.finished /\ r.hasTool = tool /\ r.stopPending = q.stopPending
      /\ r.blocks = blocks /\ r.next = q.next + 1 /\ r.thinking = q.thinking
      /\ r.signature = q.signature /\ r.reasonKey = q.reasonKey /\ r.completed = q.completed
  BY <1>1 DEF Typed, IsTranslator
<1> HIDE DEF r
<1>7. Typed(r) /\ k \in DOMAIN r.blocks
  BY <1>1, <1>3, <1>5, <1>6 DEF Typed
<1> QED
  BY <1>1, <1>2, <1>7

\* New books for the registered blocks.
LEMMA RebookedTyped ==
  ASSUME NEW s, Typed(s), NEW w, NEW blocks, DOMAIN blocks = DOMAIN s.blocks,
         \A x \in DOMAIN blocks : blocks[x] \in Block
  PROVE  Typed([s EXCEPT !.wire = w, !.blocks = blocks])
<1> DEFINE r == [s EXCEPT !.wire = w, !.blocks = blocks]
<1>1. /\ IsTranslator(r) /\ r.mode = s.mode /\ r.started = s.started
      /\ r.finished = s.finished /\ r.hasTool = s.hasTool /\ r.stopPending = s.stopPending
      /\ r.blocks = blocks /\ r.next = s.next /\ r.thinking = s.thinking
      /\ r.signature = s.signature /\ r.reasonKey = s.reasonKey /\ r.completed = s.completed
  BY DEF Typed, IsTranslator
<1> HIDE DEF r
<1>2. Typed(r)
  BY <1>1 DEF Typed
<1> QED
  BY <1>2 DEF r

LEMMA FeedTyped ==
  ASSUME NEW s, Typed(s), NEW k \in Keys, NEW n, NEW named
  PROVE  Typed(Feed(s, k, n, named))
<1> DEFINE q == EnsureBlock(s, k, named)
           v == BlockDelta(q.wire, q.blocks[k].index, KindOf(k), k[1], n)
           fed == [q.blocks[k] EXCEPT !.emitted = TRUE]
           blocks == [q.blocks EXCEPT ![k] = fed]
<1>1. Typed(q) /\ k \in DOMAIN q.blocks
  BY EnsureBlockTyped
<1>2. \/ Feed(s, k, n, named) = s \/ Feed(s, k, n, named) = q
      \/ Feed(s, k, n, named) = [q EXCEPT !.wire = v, !.blocks = blocks]
  BY DEF Feed, Marked
<1> HIDE DEF q, v
<1>3. fed \in Block
  BY <1>1 DEF Typed, Block
<1> HIDE DEF fed
<1>4. DOMAIN blocks = DOMAIN q.blocks /\ \A x \in DOMAIN blocks : blocks[x] \in Block
  BY <1>1, <1>3 DEF Typed
<1> HIDE DEF blocks
<1>5. Typed([q EXCEPT !.wire = v, !.blocks = blocks])
  BY <1>1, <1>4, RebookedTyped, Zenon
<1> QED
  BY <1>1, <1>2, <1>5, Zenon

LEMMA StopBlockTyped ==
  ASSUME NEW s, Typed(s), NEW k
  PROVE  Typed(StopBlock(s, k))
<1> DEFINE v == BlocksStop(s.wire, {s.blocks[k].index})
           stopped == Stopped(s.blocks[k])
           blocks == [s.blocks EXCEPT ![k] = stopped]
<1>1. CASE k \notin DOMAIN s.blocks \/ s.blocks[k].stopped
  BY <1>1 DEF StopBlock, Registered
<1>2. CASE ~(k \notin DOMAIN s.blocks \/ s.blocks[k].stopped)
  <2>1. StopBlock(s, k) = [s EXCEPT !.wire = v, !.blocks = blocks]
    BY <1>2, Zenon DEF StopBlock, Registered, Marked
  <2>2. s.blocks[k] \in Block
    BY <1>2 DEF Typed
  <2>3. stopped \in Block
    BY <2>2 DEF Stopped, Block
  <2> HIDE DEF v, stopped
  <2>4. DOMAIN blocks = DOMAIN s.blocks /\ \A x \in DOMAIN blocks : blocks[x] \in Block
    BY <2>3 DEF Typed
  <2> HIDE DEF blocks
  <2>5. Typed([s EXCEPT !.wire = v, !.blocks = blocks])
    BY <2>4, RebookedTyped, Zenon
  <2> QED
    BY <2>1, <2>5, Zenon
<1> QED
  BY <1>1, <1>2

LEMMA StopAllTyped ==
  ASSUME NEW s, Typed(s)
  PROVE  Typed(StopAllBlocks(s))
<1> DEFINE ks == {k \in DOMAIN s.blocks : ~s.blocks[k].stopped}
           v == BlocksStop(s.wire, {s.blocks[k].index : k \in ks})
           blocks == [k \in DOMAIN s.blocks |-> Stopped(s.blocks[k])]
<1>1. StopAllBlocks(s) = [s EXCEPT !.wire = v, !.blocks = blocks]
  BY DEF StopAllBlocks
<1>2. DOMAIN blocks = DOMAIN s.blocks
  OBVIOUS
<1>3. ASSUME NEW x \in DOMAIN s.blocks PROVE blocks[x] \in Block
  <2>1. s.blocks[x] \in Block
    BY DEF Typed
  <2> QED
    BY <2>1 DEF Stopped, Block
<1> HIDE DEF v, blocks
<1>4. \A x \in DOMAIN blocks : blocks[x] \in Block
  BY <1>2, <1>3, Zenon
<1>5. Typed([s EXCEPT !.wire = v, !.blocks = blocks])
  BY <1>2, <1>4, RebookedTyped, Zenon
<1> QED
  BY <1>1, <1>5, Zenon

LEMMA EndTyped ==
  ASSUME NEW s, Typed(s), NEW w
  PROVE  Typed([s EXCEPT !.wire = w, !.finished = TRUE])
BY DEF Typed, IsTranslator

LEMMA EndsTyped ==
  ASSUME NEW s, Typed(s), NEW how
  PROVE  Typed(Finish(s, how)) /\ Typed(Fail(s)) /\ Typed(PipeFailed(s))
<1>1. Typed(Finish(s, how))
  <2> DEFINE q == StopAllBlocks(FinalizeThinking(EnsureStart(s), TRUE))
             stopReason == IF how # "none" THEN how
                           ELSE IF q.hasTool THEN "tool_use" ELSE "end_turn"
             v == TheEnd(q.wire, stopReason)
  <2>1. Typed(q)
    BY EnsureStartTyped, FinalizeTyped, StopAllTyped
  <2>2. Finish(s, how) = s \/ Finish(s, how) = [q EXCEPT !.wire = v, !.finished = TRUE]
    BY DEF Finish
  <2> HIDE DEF q, v
  <2>3. Typed([q EXCEPT !.wire = v, !.finished = TRUE])
    BY <2>1, EndTyped, Zenon
  <2> QED
    BY <2>2, <2>3, Zenon
<1>2. Typed(Fail(s))
  <2> DEFINE q == StopAllBlocks(FinalizeThinking(s, TRUE))
             v == TheEnd(q.wire, "error")
  <2>1. Typed(q)
    BY FinalizeTyped, StopAllTyped
  <2>2. Fail(s) = s \/ Fail(s) = [q EXCEPT !.wire = v, !.finished = TRUE]
    BY DEF Fail
  <2> HIDE DEF q, v
  <2>3. Typed([q EXCEPT !.wire = v, !.finished = TRUE])
    BY <2>1, EndTyped, Zenon
  <2> QED
    BY <2>2, <2>3, Zenon
<1>3. Typed(PipeFailed(s))
  BY <1>2, WrittenTyped DEF PipeFailed
<1> QED
  BY <1>1, <1>2, <1>3

\* Messages, calls and reasoning items are fed to their own helpers.
LEMMA FinalItemTyped ==
  ASSUME Typed(tr), rest \in Seq(Items), FinalItem
  PROVE  Typed(tr')
<1> DEFINE i == Head(rest)
           k == FinalKey(i)
<1>1. i \in Items
  BY DEF FinalItem
<1>2. tr' = IF i \in Reasonings THEN EmitFinalReasoning(tr, FinalKey(i), Full[i], i \in Signed)
            ELSE IF i \in Calls THEN FinalCall(tr, i)
            ELSE FinalMessage(tr, i)
  BY Zenon DEF FinalItem
<1> HIDE DEF i
<1>3. i \notin Reasonings => k \in Keys
  BY <1>1, KeysOf DEF Items
<1>4. CASE i \in Reasonings
  BY <1>2, <1>4, ReasoningKeysOf, EmitFinalReasoningTyped, Zenon
<1>5. CASE i \notin Reasonings /\ i \in Calls
  <2> DEFINE q == EnsureBlock(tr, k, TRUE)
             r == IF Emitted(q, k) THEN q ELSE Feed(q, k, Full[i], TRUE)
  <2>1. tr' = StopBlock(r, k)
    BY <1>2, <1>5, Zenon DEF FinalCall
  <2> HIDE DEF k
  <2>2. Typed(q)
    BY <1>3, <1>5, EnsureBlockTyped, Zenon
  <2> HIDE DEF q
  <2>3. Typed(r)
    BY <1>3, <1>5, <2>2, FeedTyped, Zenon
  <2> HIDE DEF r
  <2> QED
    BY <2>1, <2>3, StopBlockTyped
<1>6. CASE i \notin Reasonings /\ i \notin Calls
  <2> DEFINE r == IF Emitted(tr, k) THEN tr ELSE Feed(tr, k, Full[i], FALSE)
  <2>1. tr' = tr \/ tr' = StopBlock(r, k)
    BY <1>2, <1>6, Zenon DEF FinalMessage
  <2> HIDE DEF k
  <2>2. Typed(r)
    BY <1>3, <1>6, FeedTyped, Zenon
  <2> HIDE DEF r
  <2> QED
    BY <2>1, <2>2, StopBlockTyped
<1> QED
  BY <1>4, <1>5, <1>6

LEMMA TextEventsTyped ==
  ASSUME NEW ev \in Events, Typed(tr),
         \/ Created(ev) \/ TextDelta(ev) \/ ContentPartAdded(ev) \/ ContentPartDone(ev)
         \/ MessageAdded(ev) \/ MessageDone(ev)
         \/ CallAdded(ev) \/ ArgumentsDelta(ev) \/ CallDone(ev)
  PROVE  Typed(tr')
<1> DEFINE started == EnsureStart(tr)
           k == Key(ev.item)
<1>1. Typed(started)
  BY EnsureStartTyped
<1>2. ~Created(ev) => k \in Keys
  BY EventItems, KeysOf
     DEF TextDelta, ContentPartAdded, ContentPartDone, MessageAdded, MessageDone,
         CallAdded, ArgumentsDelta, CallDone
<1>3. CASE Created(ev) \/ MessageAdded(ev)
  BY <1>1, <1>3 DEF Created, MessageAdded, Becomes
<1>4. CASE ~Created(ev) /\ ~MessageAdded(ev)
  <2>1. k \in Keys
    BY <1>2, <1>4
  <2>2. \A named : Typed(EnsureBlock(started, k, named))
    BY <1>1, <2>1, EnsureBlockTyped
  <2>3. \A named, n : /\ Typed(Feed(started, k, n, named))
                      /\ Typed(Feed(EnsureBlock(started, k, named), k, n, named))
    BY <1>1, <2>1, <2>2, FeedTyped
  <2> HIDE DEF started, k
  <2>4. CASE TextDelta(ev) \/ ArgumentsDelta(ev)
    <3>1. tr' = Feed(started, k, ev.n, FALSE)
      BY <2>4, Zenon DEF TextDelta, ArgumentsDelta, Becomes, started, k
    <3> QED
      BY <2>3, <3>1, Zenon
  <2>5. CASE ContentPartAdded(ev)
    <3>1. tr' = EnsureBlock(started, k, FALSE)
      BY <2>5, Zenon DEF ContentPartAdded, Becomes, started, k
    <3> QED
      BY <2>2, <3>1, Zenon
  <2>6. CASE ContentPartDone(ev) \/ MessageDone(ev)
    <3> DEFINE r == IF Emitted(tr, k) \/ ev.n = 0 THEN tr ELSE Feed(started, k, ev.n, FALSE)
    <3>1. tr' = StopBlock(r, k)
      BY <2>6, Zenon DEF ContentPartDone, MessageDone, Becomes, started, k
    <3>2. Typed(r)
      BY <2>3, Zenon
    <3> HIDE DEF r
    <3> QED
      BY <3>1, <3>2, StopBlockTyped
  <2>7. CASE CallAdded(ev)
    <3>1. tr' = Feed(EnsureBlock(started, k, TRUE), k, ev.n, TRUE)
      BY <2>7, Zenon DEF CallAdded, Becomes, started, k
    <3> QED
      BY <2>3, <3>1, Zenon
  <2>8. CASE CallDone(ev)
    <3> DEFINE named == ev.type = "item.done"
               s == EnsureBlock(started, k, named)
               r == IF Emitted(s, k) THEN s ELSE Feed(s, k, ev.n, named)
    <3>1. tr' = StopBlock(r, k)
      BY <2>8, Zenon DEF CallDone, Becomes, started, k
    <3>2. Typed(r)
      BY <2>2, <2>3, Zenon
    <3> HIDE DEF r
    <3> QED
      BY <3>1, <3>2, StopBlockTyped
  <2> QED
    BY <1>4, <2>4, <2>5, <2>6, <2>7, <2>8
<1> QED
  BY <1>3, <1>4

LEMMA ReasoningEventsTyped ==
  ASSUME NEW ev \in Events, Typed(tr),
         \/ ReasoningPartAdded(ev) \/ ReasoningDelta(ev) \/ ReasoningPartDone(ev)
         \/ ReasoningAdded(ev) \/ ReasoningDone(ev)
  PROVE  Typed(tr')
<1> DEFINE started == EnsureStart(tr)
           i == ev.item
<1>1. Typed(started)
  BY EnsureStartTyped
<1>2. i \in Reasonings
  BY EventItems
     DEF ReasoningPartAdded, ReasoningDelta, ReasoningPartDone, ReasoningAdded, ReasoningDone
<1> HIDE DEF started
<1>3. CASE ReasoningPartAdded(ev)
  BY <1>1, <1>2, <1>3, StartThinkingTyped DEF ReasoningPartAdded, Becomes, started
<1>4. CASE ReasoningDelta(ev)
  <2> DEFINE r == IF started.thinking = Nowhere THEN StartThinkingPart(started, i)
                                                ELSE started
  <2>1. tr' = ThinkingDelta(r, i, ev.n)
    BY <1>4 DEF ReasoningDelta, Becomes, started
  <2>2. Typed(r)
    BY <1>1, <1>2, StartThinkingTyped
  <2> HIDE DEF r
  <2> QED
    BY <2>1, <2>2, ThinkingDeltaTyped
<1>5. CASE ReasoningPartDone(ev)
  <2>1. tr' = [tr EXCEPT !.stopPending = TRUE]
    BY <1>5 DEF ReasoningPartDone, Becomes
  <2> QED
    BY <2>1 DEF Typed, IsTranslator
<1>6. CASE ReasoningAdded(ev)
  <2> DEFINE r == [started EXCEPT !.reasonKey = Key(i)]
  <2>1. tr' = CaptureSignature(r, i, ev.sig)
    BY <1>6 DEF ReasoningAdded, Becomes, started
  <2>2. Typed(r)
    BY <1>1, <1>2, ReasoningKeysOf, KeyedTyped, Zenon
  <2> HIDE DEF r
  <2> QED
    BY <1>2, <2>1, <2>2, CaptureTyped
<1>7. CASE ReasoningDone(ev)
  <2> DEFINE q == [tr EXCEPT !.reasonKey = Key(i)]
             s == CaptureSignature(q, i, ev.sig)
             r == IF s.thinking = Nowhere THEN EmitFinalReasoning(s, Key(i), ev.n, ev.sig)
                                          ELSE FinalizeThinking(s, TRUE)
  <2>1. tr' = r
    BY <1>7 DEF ReasoningDone, Becomes
  <2>2. Typed(q)
    BY <1>2, ReasoningKeysOf, KeyedTyped, Zenon
  <2> HIDE DEF q
  <2>3. Typed(s)
    BY <1>2, <2>2, CaptureTyped
  <2> HIDE DEF s
  <2>4. Typed(r)
    BY <1>2, <2>3, ReasoningKeysOf, EmitFinalReasoningTyped, FinalizeTyped
  <2> QED
    BY <2>1, <2>4
<1> QED
  BY <1>3, <1>4, <1>5, <1>6, <1>7

LEMMA AnthropicTyped ==
  ASSUME Typed(tr), rest \in Seq(Items), AnthropicNext
  PROVE  Typed(tr')
<1>1. ASSUME NEW ev \in Events, Process(ev) PROVE Typed(tr')
  <2>1. CASE Completed(ev)
    BY <2>1, EnsureStartTyped DEF Completed
  <2>2. CASE Invalid(ev) \/ Failed(ev)
    BY <2>2, EndsTyped DEF Invalid, Failed, Becomes
  <2>3. CASE DoneMark(ev)
    BY <2>3, EndsTyped DEF DoneMark, Becomes
  <2> QED
    BY <1>1, <2>1, <2>2, <2>3, TextEventsTyped, ReasoningEventsTyped DEF Process
<1>2. CASE FinalItem
  BY <1>2, FinalItemTyped
<1>3. CASE FinishCompleted
  BY <1>3, EndsTyped DEF FinishCompleted
<1>4. CASE UpstreamEOF
  BY <1>4, EndsTyped DEF UpstreamEOF
<1> QED
  BY <1>1, <1>2, <1>3, <1>4 DEF AnthropicNext

\* nextTool counts the registered calls, which are finitely many.
ChatTyped(s) ==
  /\ IsChat(s)
  /\ s.sentRole \in BOOLEAN /\ s.terminal \in BOOLEAN
  /\ DOMAIN s.tools \subseteq Calls
  /\ \A i \in DOMAIN s.tools : s.tools[i] \in Tool
  /\ IsFiniteSet(DOMAIN s.tools)
  /\ s.nextTool = Cardinality(DOMAIN s.tools)

\* The books are not touched by what is written.
LEMMA ChatWrittenTyped ==
  ASSUME NEW s, ChatTyped(s), NEW r, IsChat(r), r.sentRole \in BOOLEAN,
         r.terminal \in BOOLEAN, r.nextTool = s.nextTool, DOMAIN r.tools = DOMAIN s.tools,
         \A i \in DOMAIN s.tools : r.tools[i] \in Tool
  PROVE  ChatTyped(r)
BY DEF ChatTyped

LEMMA UpdatedTyped ==
  ASSUME NEW s, ChatTyped(s), NEW i \in DOMAIN s.tools, NEW tool \in Tool
  PROVE  /\ ChatTyped(Updated(s, i, tool))
         /\ DOMAIN Updated(s, i, tool).tools = DOMAIN s.tools
<1> DEFINE tools == [s.tools EXCEPT ![i] = tool]
           r == [s EXCEPT !.tools = tools]
<1>1. Updated(s, i, tool) = r
  BY DEF Updated
<1>2. DOMAIN tools = DOMAIN s.tools /\ \A j \in DOMAIN s.tools : tools[j] \in Tool
  BY DEF ChatTyped
<1> HIDE DEF tools
<1>3. /\ IsChat(r) /\ r.sentRole = s.sentRole /\ r.terminal = s.terminal
      /\ r.nextTool = s.nextTool /\ r.tools = tools
  BY DEF ChatTyped, IsChat
<1> HIDE DEF r
<1> QED
  BY <1>1, <1>2, <1>3, ChatWrittenTyped DEF ChatTyped

LEMMA SendChunkTyped ==
  ASSUME NEW s, ChatTyped(s), NEW i, NEW n
  PROVE  ChatTyped(SendChunk(s, i, n))
BY DEF ChatTyped, IsChat, SendChunk

LEMMA EnsureToolTyped ==
  ASSUME NEW s, ChatTyped(s), NEW i \in Calls, NEW named \in BOOLEAN
  PROVE  ChatTyped(EnsureTool(s, i, named)) /\ i \in DOMAIN EnsureTool(s, i, named).tools
<1>1. CASE i \in DOMAIN s.tools
  <2> DEFINE tool == [s.tools[i] EXCEPT !.named = s.tools[i].named \/ named]
  <2>1. EnsureTool(s, i, named) = Updated(s, i, tool)
    BY <1>1 DEF EnsureTool
  <2>2. tool \in Tool
    BY <1>1 DEF ChatTyped, Tool
  <2> HIDE DEF tool
  <2> QED
    BY <1>1, <2>1, <2>2, UpdatedTyped
<1>2. CASE i \notin DOMAIN s.tools
  <2> DEFINE tool == [index |-> s.nextTool + 1, named |-> named, sawArgs |-> FALSE,
                      finalized |-> FALSE, identitySent |-> FALSE]
             tools == [x \in DOMAIN s.tools \cup {i} |-> IF x = i THEN tool ELSE s.tools[x]]
             r == [s EXCEPT !.tools = tools, !.nextTool = s.nextTool + 1]
  <2>1. EnsureTool(s, i, named) = r
    BY <1>2 DEF EnsureTool
  <2>2. s.nextTool \in Nat
    BY FS_CardinalityType DEF ChatTyped
  <2>3. tool \in Tool
    BY <2>2 DEF Tool
  <2> HIDE DEF tool
  <2>4. /\ DOMAIN tools = DOMAIN s.tools \cup {i}
        /\ \A j \in DOMAIN tools : tools[j] \in Tool
    BY <2>3 DEF ChatTyped
  <2> HIDE DEF tools
  <2>5. /\ IsChat(r) /\ r.sentRole = s.sentRole /\ r.terminal = s.terminal
        /\ r.tools = tools /\ r.nextTool = s.nextTool + 1
    BY DEF ChatTyped, IsChat
  <2> HIDE DEF r
  <2>6. IsFiniteSet(DOMAIN r.tools) /\ Cardinality(DOMAIN r.tools) = s.nextTool + 1
    BY <1>2, <2>4, <2>5, FS_AddElement DEF ChatTyped
  <2> QED
    BY <2>1, <2>4, <2>5, <2>6 DEF ChatTyped
<1> QED
  BY <1>1, <1>2

LEMMA SawArgsTyped ==
  ASSUME NEW s, ChatTyped(s), NEW i \in DOMAIN s.tools
  PROVE  ChatTyped(SawArgs(s, i)) /\ DOMAIN SawArgs(s, i).tools = DOMAIN s.tools
<1> DEFINE tool == [s.tools[i] EXCEPT !.sawArgs = TRUE]
<1>1. SawArgs(s, i) = Updated(s, i, tool)
  BY DEF SawArgs
<1>2. tool \in Tool
  BY DEF ChatTyped, Tool
<1> HIDE DEF tool
<1> QED
  BY <1>1, <1>2, UpdatedTyped

LEMMA SendToolTyped ==
  ASSUME NEW s, ChatTyped(s), NEW i \in DOMAIN s.tools, NEW n
  PROVE  ChatTyped(SendTool(s, i, n))
<1> DEFINE tool == s.tools[i]
           sentTool == [tool EXCEPT !.identitySent = TRUE]
           u == Updated(s, i, sentTool)
           v == ToolChunk(u.wire, ~s.sentRole, tool.index, ~tool.identitySent,
                          tool.named, i, n)
           r == [u EXCEPT !.sentRole = TRUE, !.wire = v]
<1>1. SendTool(s, i, n) = r
  BY DEF SendTool
<1>2. sentTool \in Tool
  BY DEF ChatTyped, Tool
<1> HIDE DEF sentTool
<1>3. ChatTyped(u)
  BY <1>2, UpdatedTyped
<1> HIDE DEF u, v
<1>4. ChatTyped(r)
  BY <1>3 DEF ChatTyped, IsChat
<1> QED
  BY <1>1, <1>4

LEMMA FinalizeToolTyped ==
  ASSUME NEW s, ChatTyped(s), NEW i \in DOMAIN s.tools, NEW n
  PROVE  ChatTyped(FinalizeTool(s, i, n))
<1> DEFINE tool == [s.tools[i] EXCEPT !.finalized = TRUE]
           r == Updated(s, i, tool)
           a == SawArgs(r, i)
<1>1. FinalizeTool(s, i, n) = IF s.tools[i].finalized THEN s
                              ELSE IF s.tools[i].sawArgs THEN r ELSE SendTool(a, i, n)
  BY DEF FinalizeTool
<1>2. tool \in Tool
  BY DEF ChatTyped, Tool
<1> HIDE DEF tool
<1>3. ChatTyped(r) /\ i \in DOMAIN r.tools
  BY <1>2, UpdatedTyped
<1> HIDE DEF r
<1>4. ChatTyped(a) /\ i \in DOMAIN a.tools
  BY <1>3, SawArgsTyped
<1> HIDE DEF a
<1> QED
  BY <1>1, <1>3, <1>4, SendToolTyped

LEMMA ChatEndsTyped ==
  ASSUME NEW s, ChatTyped(s), NEW how
  PROVE  ChatTyped(FinishChat(s, how)) /\ ChatTyped(ErrorChunk(s)) /\ ChatTyped(CloseChat(s))
<1>1. ASSUME NEW w, NEW q, ChatTyped(q)
      PROVE  /\ ChatTyped([q EXCEPT !.terminal = TRUE, !.wire = w])
             /\ ChatTyped([q EXCEPT !.wire = w])
  BY <1>1 DEF ChatTyped, IsChat
<1>2. ChatTyped(FinishChat(s, how))
  <2> DEFINE tools == IF DOMAIN s.tools = {} THEN "stop" ELSE "tool_calls"
             v == FinishChunk(s.wire, IF how = "none" THEN tools ELSE how)
  <2>1. FinishChat(s, how) = s \/ FinishChat(s, how) = [s EXCEPT !.terminal = TRUE, !.wire = v]
    BY DEF FinishChat
  <2> HIDE DEF v
  <2> QED
    BY <1>1, <2>1, Zenon
<1>3. ChatTyped(ErrorChunk(s))
  BY <1>1, Zenon DEF ErrorChunk
<1>4. ChatTyped(CloseChat(s))
  <2> DEFINE r == IF s.terminal THEN s ELSE ErrorChunk(s)
             v == DoneChunk(r.wire)
  <2>1. ChatTyped(r)
    BY <1>3
  <2>2. CloseChat(s) = [r EXCEPT !.wire = v]
    BY DEF CloseChat
  <2> HIDE DEF r, v
  <2> QED
    BY <1>1, <2>1, <2>2, Zenon
<1> QED
  BY <1>2, <1>3, <1>4

LEMMA ChatNextTyped ==
  ASSUME ChatTyped(chat), chatOver \in BOOLEAN, ChatNext
  PROVE  ChatTyped(chat') /\ chatOver' \in BOOLEAN
<1>1. ASSUME NEW ev \in Events, ChatProcess(ev) PROVE ChatTyped(chat') /\ chatOver' \in BOOLEAN
  <2>1. ASSUME NEW s, ChatTyped(s), ChatBecomes(s)
        PROVE  ChatTyped(chat') /\ chatOver' \in BOOLEAN
    BY <2>1 DEF ChatBecomes
  <2>2. CASE ChatCreated(ev) \/ ChatText(ev) \/ ChatIgnored(ev)
    BY <2>1, <2>2, SendChunkTyped DEF ChatCreated, ChatText, ChatIgnored
  <2>3. CASE ChatCallAdded(ev)
    <3>1. PICK named \in BOOLEAN :
            ChatBecomes(SendTool(EnsureTool(chat, ev.item, named), ev.item, 0))
      BY <2>3, Zenon DEF ChatCallAdded
    <3>2. ChatTyped(SendTool(EnsureTool(chat, ev.item, named), ev.item, 0))
      BY <2>3, EnsureToolTyped, SendToolTyped DEF ChatCallAdded
    <3> QED
      BY <2>1, <3>1, <3>2
  <2>4. CASE ChatArguments(ev)
    <3>1. PICK named \in BOOLEAN :
            ChatBecomes(SendTool(SawArgs(EnsureTool(chat, ev.item, named), ev.item),
                                 ev.item, ev.n))
      BY <2>4, Zenon DEF ChatArguments
    <3>2. ev.item \in Calls
      BY <2>4, EventItems DEF ChatArguments
    <3> DEFINE s == EnsureTool(chat, ev.item, named)
               r == SawArgs(s, ev.item)
    <3>3. ChatBecomes(SendTool(r, ev.item, ev.n))
      BY <3>1
    <3>4. ChatTyped(s) /\ ev.item \in DOMAIN s.tools
      BY <3>2, EnsureToolTyped
    <3> HIDE DEF s
    <3>5. ChatTyped(r) /\ ev.item \in DOMAIN r.tools
      BY <3>4, SawArgsTyped
    <3> HIDE DEF r
    <3>6. ChatTyped(SendTool(r, ev.item, ev.n))
      BY <3>5, SendToolTyped
    <3> QED
      BY <2>1, <3>3, <3>6
  <2>5. CASE ChatCallDone(ev)
    <3>1. (ev.type = "item.done") \in BOOLEAN /\ ev.item \in Calls
      BY <2>5 DEF ChatCallDone
    <3>2. PICK named \in BOOLEAN :
            ChatBecomes(FinalizeTool(EnsureTool(chat, ev.item, named), ev.item, ev.n))
      BY <2>5, <3>1, Zenon DEF ChatCallDone
    <3>3. ChatTyped(FinalizeTool(EnsureTool(chat, ev.item, named), ev.item, ev.n))
      BY <3>1, EnsureToolTyped, FinalizeToolTyped
    <3> QED
      BY <2>1, <3>2, <3>3
  <2>6. CASE ChatCompleted(ev) \/ ChatDoneMark(ev) \/ ChatFailed(ev)
    BY <2>1, <2>6, ChatEndsTyped DEF ChatCompleted, ChatDoneMark, ChatFailed
  <2>7. CASE ChatInvalid(ev)
    BY <2>7, ChatEndsTyped DEF ChatInvalid
  <2> QED
    BY <1>1, <2>2, <2>3, <2>4, <2>5, <2>6, <2>7 DEF ChatProcess
<1>2. CASE ChatEOF
  BY <1>2, ChatEndsTyped DEF ChatEOF
<1>3. CASE ChatWholeBody
  <2>1. PICK w : chat' = [chat EXCEPT !.wire = w]
    BY <1>3, Zenon DEF ChatWholeBody
  <2>2. chatOver' = TRUE
    BY <1>3 DEF ChatWholeBody
  <2> QED
    BY <2>1, <2>2 DEF ChatTyped, IsChat
<1> QED
  BY <1>1, <1>2, <1>3 DEF ChatNext

\* How much an event of an item carries.
LEMMA EventAmounts ==
  ASSUME NEW ev \in Events, ev.item \in Items
  PROVE  /\ ev.sig \in BOOLEAN
         /\ \/ ev.type \in Deltas /\ ev.n = 1
            \/ ev.type \in PartBegins \cup {"reasoning_part.done"} /\ ev.n = 0
            \/ ev.type = "item.added" /\ ev.n \in {0, Full[ev.item]}
            \/ ev.type \in Ends
<1>1. \A types, items, amounts, sigs :
        ev \in Ev(types, items, amounts, sigs)
          => ev.type \in types /\ ev.item \in items /\ ev.n \in amounts /\ ev.sig \in sigs
  BY DEF Ev
<1>2. \A types, items, sigs :
        ev \in Whole(types, items, sigs)
          => ev.type \in types /\ ev.n \in {0, Full[ev.item]} /\ ev.sig \in sigs
  <2> SUFFICES ASSUME NEW types, NEW items, NEW sigs, ev \in Whole(types, items, sigs)
               PROVE  ev.type \in types /\ ev.n \in {0, Full[ev.item]} /\ ev.sig \in sigs
    OBVIOUS
  <2>1. PICK i \in items : ev \in Ev(types, {i}, {0, Full[i]}, sigs)
    BY DEF Whole
  <2>2. ev.type \in types /\ ev.item \in {i} /\ ev.n \in {0, Full[i]} /\ ev.sig \in sigs
    BY <1>1, <2>1
  <2> QED
    BY <2>2
<1>3. ev.item # NoItem
  BY ItemsAssumption
<1>4. \A types, amounts, sigs :
        ev \notin Ev(types, {NoItem}, amounts, sigs)
  BY <1>1, <1>3
<1>5. \/ ev \in Ev({"output_text.delta"}, Messages, {1}, {FALSE})
      \/ ev \in Ev({"arguments.delta"}, Calls, {1}, {FALSE})
      \/ ev \in Ev({"reasoning.delta"}, Reasonings, {1}, {FALSE})
      \/ ev \in Ev({"content_part.added"}, Messages, {0}, {FALSE})
      \/ ev \in Ev({"reasoning_part.added", "reasoning_part.done"}, Reasonings, {0}, {FALSE})
      \/ ev \in Ev({"item.added"}, Messages, {0}, {FALSE})
      \/ ev \in Ev({"item.added"}, Reasonings, {0}, BOOLEAN)
      \/ ev \in Whole({"content_part.done", "item.done"}, Messages, {FALSE})
      \/ ev \in Whole({"item.done"}, Reasonings, BOOLEAN)
      \/ ev \in Whole({"item.added", "arguments.done", "item.done"}, Calls, {FALSE})
  BY <1>4, Zenon DEF Events
<1>6. ev.sig \in BOOLEAN
  <2>1. ev.sig \in {FALSE} \/ ev.sig \in BOOLEAN
    BY <1>1, <1>2, <1>5, Zenon
  <2> QED
    BY <2>1
<1>7. \/ ev.type \in {"output_text.delta", "arguments.delta", "reasoning.delta"} /\ ev.n = 1
      \/ /\ ev.type \in {"content_part.added", "reasoning_part.added", "reasoning_part.done"}
         /\ ev.n = 0
      \/ ev.type = "item.added" /\ ev.n \in {0, Full[ev.item]}
      \/ ev.type \in {"content_part.done", "arguments.done", "item.done"}
  BY <1>1, <1>2, <1>5
<1> QED
  BY <1>6, <1>7 DEF Deltas, PartBegins, Ends

Sending(i) == [parts : 0 .. Full[i], opened : 0 .. Full[i], added : BOOLEAN,
               whole : BOOLEAN, closed : BOOLEAN, done : BOOLEAN, signed : BOOLEAN]

LEMMA NowSentTyped ==
  ASSUME NEW ev \in Events, ev.item \in Items, MaySendItem(ev),
         sent[ev.item] \in Sending(ev.item)
  PROVE  NowSent(ev) \in Sending(ev.item)
<1> DEFINE i == ev.item
           s == sent[i]
           parts == IF ev.type \in Ends THEN Full[i] ELSE s.parts + ev.n
           opened == IF ev.type \in PartBegins THEN s.parts + 1 ELSE s.opened
           added == s.added \/ (ev.type = "item.added" /\ i \notin Messages)
           whole == s.whole \/ (ev.type \in Ends /\ s.parts = 0)
           closed == s.closed \/ ev.type \in Ends
           done == s.done \/ ev.type = "item.done"
           signed == s.signed \/ ev.sig
<1>1. NowSent(ev) = [parts |-> parts, opened |-> opened, added |-> added, whole |-> whole,
                     closed |-> closed, done |-> done, signed |-> signed]
  BY Zenon DEF NowSent
<1>2. /\ added \in BOOLEAN /\ whole \in BOOLEAN /\ closed \in BOOLEAN /\ done \in BOOLEAN
      /\ signed \in BOOLEAN
  OBVIOUS
<1>3. s.parts \in 0 .. Full[i] /\ s.opened \in 0 .. Full[i] /\ Full[i] \in Nat \ {0}
  BY BoundsAssumption DEF Sending
<1>4. /\ ev.type \in Deltas \cup PartBegins => s.parts < Full[i]
      /\ ev.type = "item.added" => s.parts = 0
  BY DEF MaySendItem, MaySendDelta
<1>5. parts \in 0 .. Full[i]
  BY <1>3, <1>4, EventAmounts DEF Deltas, PartBegins, Ends
<1>6. opened \in 0 .. Full[i]
  BY <1>3, <1>4
<1> HIDE DEF parts, opened, added, whole, closed, done, signed
<1> QED
  BY <1>1, <1>2, <1>5, <1>6 DEF Sending

UpstreamTyped ==
  /\ orderly \in BOOLEAN
  /\ DOMAIN sent = Items
  /\ \A i \in Items : sent[i] \in Sending(i)
  /\ verdict \in {"none", "ok", "failed"}
  /\ strays \in 0 .. MaxStray

LEMMA SendsTyped ==
  ASSUME UpstreamTyped, NEW ev \in Events, Sends(ev)
  PROVE  UpstreamTyped'
<1>1. orderly' = orderly /\ verdict' \in {"none", "ok", "failed"}
  BY DEF UpstreamTyped, Sends
<1>2. strays' \in 0 .. MaxStray
  BY BoundsAssumption DEF UpstreamTyped, Sends
<1>3. DOMAIN sent' = Items /\ \A i \in Items : sent'[i] \in Sending(i)
  <2>1. CASE sent' = sent
    BY <2>1 DEF UpstreamTyped
  <2>2. CASE sent' # sent
    <3>1. ev.item \in Items /\ MaySendItem(ev) /\ sent' = [sent EXCEPT ![ev.item] = NowSent(ev)]
      BY <2>2 DEF Sends, MaySend
    <3>2. NowSent(ev) \in Sending(ev.item)
      BY <3>1, NowSentTyped DEF UpstreamTyped
    <3> QED
      BY <3>1, <3>2 DEF UpstreamTyped
  <2> QED
    BY <2>1, <2>2
<1> QED
  BY <1>1, <1>2, <1>3 DEF UpstreamTyped

StreamsTyped ==
  /\ endpoint \in {"messages", "chat"}
  /\ UpstreamTyped
  /\ Typed(tr) /\ TranslatorInv
  /\ ChatTyped(chat) /\ chatOver \in BOOLEAN

LEMMA StreamsTypedInit == Init => StreamsTyped
<1> SUFFICES ASSUME Init PROVE StreamsTyped
  OBVIOUS
<1>1. /\ endpoint \in {"messages", "chat"} /\ orderly \in BOOLEAN /\ verdict = "none"
      /\ strays = 0 /\ sent = [i \in Items |-> Untouched]
      /\ chat = NewChatTranslator /\ chatOver = FALSE
  BY DEF Init, UpstreamInit, ChatInit
<1>2. PICK mode \in Modes : tr = NewTranslator(mode)
  BY DEF Init, AnthropicInit
<1>3. \A i \in Items : Untouched \in Sending(i)
  <2> SUFFICES ASSUME NEW i \in Items PROVE Untouched \in Sending(i)
    OBVIOUS
  <2>1. 0 \in 0 .. Full[i]
    BY BoundsAssumption
  <2> QED
    BY <2>1 DEF Untouched, Sending
<1>4. UpstreamTyped
  BY <1>1, <1>3, BoundsAssumption DEF UpstreamTyped
<1>5. Typed(tr)
  BY <1>2 DEF NewTranslator, Typed, IsTranslator, Nowhere
<1>6. IsFiniteSet({}) /\ Cardinality({}) = 0
  BY FS_EmptySet
<1>7. ChatTyped(chat)
  BY <1>1, <1>6 DEF NewChatTranslator, ChatTyped, IsChat
<1> QED
  BY <1>1, <1>4, <1>5, <1>7, InitGood DEF StreamsTyped

LEMMA StreamsTypedNext == StreamsTyped /\ [Next]_vars => StreamsTyped'
<1> SUFFICES ASSUME StreamsTyped, [Next]_vars PROVE StreamsTyped'
  OBVIOUS
<1>1. TranslatorInv'
  BY NextGood DEF StreamsTyped
<1>2. endpoint' \in {"messages", "chat"}
  BY DEF StreamsTyped, Next, vars
<1>3. UpstreamTyped'
  <2>1. CASE UNCHANGED upstreamVars
    BY <2>1 DEF StreamsTyped, UpstreamTyped, upstreamVars
  <2>2. ASSUME NEW ev \in Events, Sends(ev) PROVE UpstreamTyped'
    BY <2>2, SendsTyped DEF StreamsTyped
  <2>3. CASE ChatWholeBody
    BY <2>3 DEF ChatWholeBody, StreamsTyped, UpstreamTyped
  <2> QED
    BY <2>1, <2>2, <2>3, ProcessSends DEF Next, vars, AnthropicNext, ChatNext
<1>4. Typed(tr')
  <2>1. CASE tr' = tr
    BY <2>1 DEF StreamsTyped
  <2>2. CASE AnthropicNext
    BY <2>2, AnthropicTyped DEF StreamsTyped, TranslatorInv
  <2> QED
    BY <2>1, <2>2 DEF Next, vars, anthropicVars
<1>5. ChatTyped(chat') /\ chatOver' \in BOOLEAN
  <2>1. CASE UNCHANGED chatVars
    BY <2>1 DEF StreamsTyped, chatVars
  <2>2. CASE ChatNext
    BY <2>2, ChatNextTyped DEF StreamsTyped
  <2> QED
    BY <2>1, <2>2 DEF Next, vars
<1> QED
  BY <1>1, <1>2, <1>3, <1>4, <1>5 DEF StreamsTyped

\* Types: an orderly upstream never sends more of an item than there is, the
\* translators register messages and calls under keys of their own, and the
\* index of the next call is the number of calls met.
THEOREM StreamsTypeCorrect == Spec => []TypeOK
<1>1. Spec => []StreamsTyped
  BY StreamsTypedInit, StreamsTypedNext, PTL DEF Spec
<1>2. StreamsTyped => TypeOK
  <2> SUFFICES ASSUME StreamsTyped PROVE TypeOK
    OBVIOUS
  <2>1. UpstreamTypeOK
    BY DEF StreamsTyped, UpstreamTyped, UpstreamTypeOK, Sending
  <2>2. AnthropicTypeOK
    BY DEF StreamsTyped, TranslatorInv, Typed, AnthropicTypeOK
  <2>3. ChatTypeOK
    BY DEF StreamsTyped, ChatTyped, ChatTypeOK
  <2> QED
    BY <2>1, <2>2, <2>3 DEF StreamsTyped, TypeOK
<1> QED
  BY <1>1, <1>2, PTL

-----------------------------------------------------------------------------
(***************************************************************************)
(* The chat endpoint says everything it is told in deltas, and every call. *)
(* What the client has of an item is determined by what an orderly         *)
(* upstream has sent of it and by the flags of the call's books.           *)
(***************************************************************************)
Settled(i) == sent[i] = Untouched \/ sent[i].closed

\* A fragment of text is told when it comes in a delta.
MessageTold(i) ==
  /\ sent[i].closed => sent[i].parts = Full[i]
  /\ IF sent[i].whole THEN sent[i].closed /\ chat.wire.got[i] = 0
                      ELSE chat.wire.got[i] = sent[i].parts

\* A call is met when it is announced or done.  Its arguments come in deltas,
\* or all at once in a "done" event; those of the announcement are not told.
CallTold(i) ==
  /\ sent[i].closed => sent[i].parts = Full[i]
  /\ i \notin DOMAIN chat.tools => sent[i] = Untouched /\ chat.wire.got[i] = 0
  /\ i \in DOMAIN chat.tools =>
       /\ sent[i].added \/ sent[i].closed
       /\ i \in chat.wire.named
       /\ (chat.tools[i].finalized <=> sent[i].closed)
       /\ sent[i].closed => chat.wire.got[i] = Full[i]
       /\ ~sent[i].closed /\ chat.tools[i].sawArgs =>
            chat.wire.got[i] = sent[i].parts /\ sent[i].parts > 0
       /\ ~sent[i].closed /\ ~chat.tools[i].sawArgs =>
            chat.wire.got[i] = 0 /\ sent[i].parts \in {0, Full[i]}

Told(i) ==
  /\ i \in Reasonings => chat.wire.got[i] = 0
  /\ i \in Messages => MessageTold(i)
  /\ i \in Calls => CallTold(i)

ChatTold == \A i \in Items : Told(i)

\* An answer that was not streamed.
ChatWhole ==
  \A i \in Items : /\ chat.wire.got[i] = ChatTranslated(i)
                   /\ i \in Calls => i \in chat.wire.named

ToldInv ==
  orderly /\ endpoint = "chat" =>
    /\ DOMAIN chat.wire.got = Items
    /\ ChatTold \/ (chatOver /\ ChatWhole)
    /\ verdict = "ok" => (\A i \in Items : Settled(i)) \/ ChatWhole

-----------------------------------------------------------------------------
\* The client has n fragments more of item i.
Gained(v, w, i, n) ==
  /\ DOMAIN w.got = Items
  /\ w.got[i] = v.got[i] + n
  /\ \A j \in Items : j # i => w.got[j] = v.got[j]

LEMMA ChunkGot ==
  ASSUME NEW w, IsChunks(w), DOMAIN w.got = Items, NEW role, NEW i, NEW n
  PROVE  /\ i \in Items => Gained(w, Chunk(w, role, i, n), i, n)
         /\ i \notin Items => Chunk(w, role, i, n).got = w.got
         /\ Chunk(w, role, i, n).named = w.named
BY DEF IsChunks, Chunk, Gained

LEMMA ToolChunkGot ==
  ASSUME NEW w, IsChunks(w), DOMAIN w.got = Items, NEW role, NEW index, NEW identity,
         NEW named, NEW i \in Items, NEW n
  PROVE  /\ Gained(w, ToolChunk(w, role, index, identity, named, i, n), i, n)
         /\ w.named \subseteq ToolChunk(w, role, index, identity, named, i, n).named
         /\ identity /\ named
              => i \in ToolChunk(w, role, index, identity, named, i, n).named
<1> DEFINE c == Chunk(w, role, i, n)
           r == ToolChunk(w, role, index, identity, named, i, n)
<1>1. Gained(w, c, i, n) /\ c.named = w.named /\ IsChunks(c)
  BY ChunkGot, ChunkFields
<1> HIDE DEF c
<1>2. /\ r.got = c.got
      /\ r.named = IF identity /\ named THEN c.named \cup {i} ELSE c.named
  BY <1>1 DEF ToolChunk, IsChunks, c
<1> HIDE DEF r
<1>3. Gained(w, r, i, n)
  BY <1>1, <1>2 DEF Gained
<1> QED
  BY <1>1, <1>2, <1>3 DEF r

LEMMA FinishChunkGot ==
  ASSUME NEW w, IsChunks(w), NEW how
  PROVE  /\ FinishChunk(w, how).got = w.got /\ FinishChunk(w, how).named = w.named
         /\ DoneChunk(w).got = w.got /\ DoneChunk(w).named = w.named
BY DEF IsChunks, FinishChunk, DoneChunk

-----------------------------------------------------------------------------
(***************************************************************************)
(* What the helpers change, and that they change it for one item only.     *)
(***************************************************************************)
Alike(s, r, i) ==
  /\ DOMAIN r.wire.got = DOMAIN s.wire.got
  /\ \A j \in DOMAIN s.wire.got : j # i => r.wire.got[j] = s.wire.got[j]
  /\ s.wire.named \subseteq r.wire.named
  /\ \A j : j # i => (j \in DOMAIN r.tools <=> j \in DOMAIN s.tools)
  /\ \A j \in DOMAIN s.tools : j # i => r.tools[j] = s.tools[j]

LEMMA UpdatedEffect ==
  ASSUME NEW s, ChatTyped(s), NEW i \in DOMAIN s.tools, NEW tool
  PROVE  LET r == Updated(s, i, tool)
         IN Alike(s, r, i) /\ r.wire = s.wire /\ DOMAIN r.tools = DOMAIN s.tools
            /\ r.tools[i] = tool
<1> DEFINE tools == [s.tools EXCEPT ![i] = tool]
           r == [s EXCEPT !.tools = tools]
<1>1. Updated(s, i, tool) = r
  BY DEF Updated
<1>2. /\ DOMAIN tools = DOMAIN s.tools /\ tools[i] = tool
      /\ \A j \in DOMAIN s.tools : j # i => tools[j] = s.tools[j]
  OBVIOUS
<1> HIDE DEF tools
<1>3. r.wire = s.wire /\ r.tools = tools
  BY DEF ChatTyped, IsChat
<1> HIDE DEF r
<1> QED
  BY <1>1, <1>2, <1>3 DEF Alike

LEMMA EnsureToolEffect ==
  ASSUME NEW s, ChatTyped(s), NEW i \in Calls, NEW named \in BOOLEAN
  PROVE  LET r == EnsureTool(s, i, named)
         IN /\ Alike(s, r, i) /\ r.wire = s.wire
            /\ i \in DOMAIN r.tools
            /\ i \in DOMAIN s.tools =>
                 /\ (r.tools[i].sawArgs <=> s.tools[i].sawArgs)
                 /\ (r.tools[i].finalized <=> s.tools[i].finalized)
                 /\ (r.tools[i].identitySent <=> s.tools[i].identitySent)
            /\ i \notin DOMAIN s.tools =>
                 /\ ~r.tools[i].sawArgs /\ ~r.tools[i].finalized /\ ~r.tools[i].identitySent
                 /\ (r.tools[i].named <=> named)
<1> DEFINE r == EnsureTool(s, i, named)
<1>1. CASE i \in DOMAIN s.tools
  <2> DEFINE tool == [s.tools[i] EXCEPT !.named = s.tools[i].named \/ named]
  <2>1. r = Updated(s, i, tool)
    BY <1>1 DEF EnsureTool
  <2>2. /\ (tool.sawArgs <=> s.tools[i].sawArgs) /\ (tool.finalized <=> s.tools[i].finalized)
        /\ (tool.identitySent <=> s.tools[i].identitySent)
    BY <1>1 DEF ChatTyped, Tool
  <2> HIDE DEF tool, r
  <2>3. Alike(s, r, i) /\ r.wire = s.wire /\ i \in DOMAIN r.tools /\ r.tools[i] = tool
    BY <1>1, <2>1, UpdatedEffect
  <2> QED
    BY <1>1, <2>2, <2>3 DEF r
<1>2. CASE i \notin DOMAIN s.tools
  <2> DEFINE tool == [index |-> s.nextTool + 1, named |-> named, sawArgs |-> FALSE,
                      finalized |-> FALSE, identitySent |-> FALSE]
             tools == [x \in DOMAIN s.tools \cup {i} |-> IF x = i THEN tool ELSE s.tools[x]]
  <2>1. r = [s EXCEPT !.tools = tools, !.nextTool = s.nextTool + 1]
    BY <1>2 DEF EnsureTool
  <2>2. ~tool.sawArgs /\ ~tool.finalized /\ ~tool.identitySent /\ (tool.named <=> named)
    OBVIOUS
  <2> HIDE DEF tool
  <2>3. /\ DOMAIN tools = DOMAIN s.tools \cup {i} /\ tools[i] = tool
        /\ \A j \in DOMAIN s.tools : j # i => tools[j] = s.tools[j]
    OBVIOUS
  <2> HIDE DEF tools, r
  <2>4. r.wire = s.wire /\ r.tools = tools
    BY <2>1 DEF ChatTyped, IsChat
  <2>5. Alike(s, r, i)
    BY <2>3, <2>4 DEF Alike
  <2> QED
    BY <1>2, <2>2, <2>3, <2>4, <2>5 DEF r
<1> QED
  BY <1>1, <1>2

LEMMA SawArgsEffect ==
  ASSUME NEW s, ChatTyped(s), NEW i \in DOMAIN s.tools
  PROVE  LET r == SawArgs(s, i)
         IN /\ Alike(s, r, i) /\ r.wire = s.wire /\ i \in DOMAIN r.tools
            /\ r.tools[i].sawArgs
            /\ (r.tools[i].finalized <=> s.tools[i].finalized)
            /\ (r.tools[i].identitySent <=> s.tools[i].identitySent)
            /\ (r.tools[i].named <=> s.tools[i].named)
<1> DEFINE tool == [s.tools[i] EXCEPT !.sawArgs = TRUE]
           r == SawArgs(s, i)
<1>1. r = Updated(s, i, tool)
  BY DEF SawArgs
<1>2. /\ tool.sawArgs /\ (tool.finalized <=> s.tools[i].finalized)
      /\ (tool.identitySent <=> s.tools[i].identitySent) /\ (tool.named <=> s.tools[i].named)
  BY DEF ChatTyped, Tool
<1> HIDE DEF tool, r
<1>3. Alike(s, r, i) /\ r.wire = s.wire /\ i \in DOMAIN r.tools /\ r.tools[i] = tool
  BY <1>1, UpdatedEffect
<1> QED
  BY <1>2, <1>3 DEF r

LEMMA SendToolEffect ==
  ASSUME NEW s, ChatTyped(s), IsChunks(s.wire), DOMAIN s.wire.got = Items,
         NEW i \in DOMAIN s.tools, NEW n
  PROVE  LET r == SendTool(s, i, n)
         IN /\ Alike(s, r, i) /\ i \in DOMAIN r.tools
            /\ r.wire.got[i] = s.wire.got[i] + n
            /\ ~s.tools[i].identitySent /\ s.tools[i].named => i \in r.wire.named
            /\ (r.tools[i].sawArgs <=> s.tools[i].sawArgs)
            /\ (r.tools[i].finalized <=> s.tools[i].finalized)
<1> DEFINE tool == s.tools[i]
           sentTool == [tool EXCEPT !.identitySent = TRUE]
           u == Updated(s, i, sentTool)
           role == ~s.sentRole
           identity == ~tool.identitySent
           v == ToolChunk(u.wire, role, tool.index, identity, tool.named, i, n)
           r == SendTool(s, i, n)
<1>1. r = [u EXCEPT !.sentRole = TRUE, !.wire = v]
  BY DEF SendTool
<1>2. (sentTool.sawArgs <=> tool.sawArgs) /\ (sentTool.finalized <=> tool.finalized)
  BY DEF ChatTyped, Tool
<1>3. sentTool \in Tool
  BY DEF ChatTyped, Tool
<1> HIDE DEF sentTool
<1>4. /\ Alike(s, u, i) /\ u.wire = s.wire /\ i \in DOMAIN u.tools /\ u.tools[i] = sentTool
      /\ IsChat(u) /\ i \in Items
  <2>1. ChatTyped(u)
    BY <1>3, UpdatedTyped
  <2>2. i \in Items
    BY DEF ChatTyped, Items
  <2> QED
    BY <2>1, <2>2, UpdatedEffect DEF ChatTyped
<1> HIDE DEF u
<1>5. /\ Gained(s.wire, v, i, n) /\ s.wire.named \subseteq v.named
      /\ identity /\ tool.named => i \in v.named
  <2>1. role \in BOOLEAN /\ identity \in BOOLEAN
    OBVIOUS
  <2>2. PICK fst \in BOOLEAN, new \in BOOLEAN :
          /\ new <=> identity
          /\ v = ToolChunk(s.wire, fst, tool.index, new, tool.named, i, n)
    BY <1>4, <2>1, Zenon
  <2> HIDE DEF v, role, identity, tool
  <2> QED
    BY <1>4, <2>2, ToolChunkGot
<1> HIDE DEF v, r
<1>6. r.wire = v /\ r.tools = u.tools
  BY <1>1, <1>4 DEF IsChat
<1>7. /\ DOMAIN v.got = DOMAIN s.wire.got /\ v.got[i] = s.wire.got[i] + n
      /\ \A j \in DOMAIN s.wire.got : j # i => v.got[j] = s.wire.got[j]
  BY <1>4, <1>5 DEF Gained
<1>8. Alike(s, r, i)
  BY <1>4, <1>5, <1>6, <1>7 DEF Alike
<1> QED
  BY <1>2, <1>4, <1>5, <1>6, <1>7, <1>8 DEF r

LEMMA FinalizeToolEffect ==
  ASSUME NEW s, ChatTyped(s), IsChunks(s.wire), DOMAIN s.wire.got = Items,
         NEW i \in DOMAIN s.tools, NEW n
  PROVE  LET r == FinalizeTool(s, i, n)
             tool == s.tools[i]
         IN /\ Alike(s, r, i) /\ i \in DOMAIN r.tools
            /\ r.tools[i].finalized
            /\ tool.finalized \/ tool.sawArgs => r.wire = s.wire
            /\ ~tool.finalized /\ ~tool.sawArgs =>
                 /\ r.wire.got[i] = s.wire.got[i] + n
                 /\ ~tool.identitySent /\ tool.named => i \in r.wire.named
<1> DEFINE tool == s.tools[i]
           last == [tool EXCEPT !.finalized = TRUE]
           u == Updated(s, i, last)
           a == SawArgs(u, i)
           b == SendTool(a, i, n)
           r == FinalizeTool(s, i, n)
<1>1. r = IF tool.finalized THEN s ELSE IF tool.sawArgs THEN u ELSE b
  BY DEF FinalizeTool
<1>2. /\ last \in Tool /\ last.finalized /\ (last.identitySent <=> tool.identitySent)
      /\ (last.named <=> tool.named)
  BY DEF ChatTyped, Tool
<1> HIDE DEF last
<1>3. ChatTyped(u) /\ DOMAIN u.tools = DOMAIN s.tools
  BY <1>2, UpdatedTyped
<1>4. Alike(s, u, i) /\ u.wire = s.wire /\ u.tools[i] = last
  BY UpdatedEffect
<1> HIDE DEF u
<1>5. ChatTyped(a)
  BY <1>3, SawArgsTyped
<1>6. /\ Alike(u, a, i) /\ a.wire = u.wire /\ i \in DOMAIN a.tools
      /\ a.tools[i].finalized
      /\ (a.tools[i].identitySent <=> tool.identitySent) /\ (a.tools[i].named <=> tool.named)
  <2>1. /\ Alike(u, a, i) /\ a.wire = u.wire /\ i \in DOMAIN a.tools
        /\ (a.tools[i].finalized <=> last.finalized)
        /\ (a.tools[i].identitySent <=> last.identitySent)
        /\ (a.tools[i].named <=> last.named)
    BY <1>3, <1>4, SawArgsEffect
  <2> QED
    BY <1>2, <2>1
<1> HIDE DEF a
<1>7. IsChunks(a.wire) /\ DOMAIN a.wire.got = Items
  BY <1>4, <1>6
<1>8. /\ Alike(a, b, i) /\ i \in DOMAIN b.tools
      /\ b.wire.got[i] = s.wire.got[i] + n
      /\ ~tool.identitySent /\ tool.named => i \in b.wire.named
      /\ b.tools[i].finalized
  <2>1. /\ Alike(a, b, i) /\ i \in DOMAIN b.tools
        /\ b.wire.got[i] = a.wire.got[i] + n
        /\ ~a.tools[i].identitySent /\ a.tools[i].named => i \in b.wire.named
        /\ (b.tools[i].finalized <=> a.tools[i].finalized)
    BY <1>5, <1>6, <1>7, SendToolEffect
  <2> QED
    BY <1>4, <1>6, <2>1
<1> HIDE DEF b, tool
<1>9. Alike(s, s, i)
  BY DEF Alike
<1>10. Alike(s, b, i)
  BY <1>4, <1>6, <1>8 DEF Alike
<1>11. i \in DOMAIN s.tools /\ (tool.finalized => s.tools[i].finalized)
  BY DEF tool
<1> HIDE DEF r
<1> QED
  BY <1>1, <1>2, <1>3, <1>4, <1>8, <1>9, <1>10, <1>11 DEF r, tool

-----------------------------------------------------------------------------
(***************************************************************************)
(* What an orderly upstream has sent after an event.                       *)
(***************************************************************************)
LEMMA SentOfItem ==
  ASSUME orderly, UpstreamTyped, NEW ev \in Events, ev.item \in Items, Sends(ev)
  PROVE  LET i == ev.item
         IN /\ MaySendItem(ev)
            /\ Full[i] \in Nat \ {0}
            /\ sent[i] \in Sending(i)
            /\ DOMAIN sent' = Items
            /\ \A j \in Items : j # i => sent'[j] = sent[j]
            /\ sent'[i].parts = IF ev.type \in Ends THEN Full[i] ELSE sent[i].parts + ev.n
            /\ (sent'[i].closed <=> sent[i].closed \/ ev.type \in Ends)
            /\ (sent'[i].whole <=> sent[i].whole \/ (ev.type \in Ends /\ sent[i].parts = 0))
            /\ (sent'[i].added
                  <=> sent[i].added \/ (ev.type = "item.added" /\ i \notin Messages))
<1> DEFINE i == ev.item
<1>1. MaySendItem(ev) /\ sent' = [sent EXCEPT ![i] = NowSent(ev)]
  BY DEF Sends, MaySend
<1>2. Full[i] \in Nat \ {0} /\ sent[i] \in Sending(i) /\ DOMAIN sent = Items
  BY BoundsAssumption DEF UpstreamTyped
<1>3. /\ DOMAIN sent' = Items /\ sent'[i] = NowSent(ev)
      /\ \A j \in Items : j # i => sent'[j] = sent[j]
  BY <1>1, <1>2
<1>4. /\ NowSent(ev).parts = IF ev.type \in Ends THEN Full[i] ELSE sent[i].parts + ev.n
      /\ (NowSent(ev).closed <=> sent[i].closed \/ ev.type \in Ends)
      /\ (NowSent(ev).whole <=> sent[i].whole \/ (ev.type \in Ends /\ sent[i].parts = 0))
      /\ (NowSent(ev).added
            <=> sent[i].added \/ (ev.type = "item.added" /\ i \notin Messages))
  BY DEF NowSent
<1> QED
  BY <1>1, <1>2, <1>3, <1>4

\* Nothing else but what the event is about has changed.
LEMMA ToldElsewhere ==
  ASSUME orderly, UpstreamTyped, NEW ev \in Events, Sends(ev), ChatTold,
         DOMAIN chat.wire.got = Items, Alike(chat, chat', ev.item),
         ev.item \in Items => Told(ev.item)'
  PROVE  ChatTold' /\ DOMAIN chat'.wire.got = Items
<1>1. DOMAIN chat'.wire.got = Items
  BY DEF Alike
<1> SUFFICES ASSUME NEW j \in Items, j # ev.item PROVE Told(j)'
  BY <1>1 DEF ChatTold
<1>2. sent'[j] = sent[j]
  <2>1. CASE ev.item \in Items
    BY <2>1, SentOfItem
  <2>2. CASE ev.item \notin Items
    BY <2>2 DEF Sends
  <2> QED
    BY <2>1, <2>2
<1>3. /\ chat'.wire.got[j] = chat.wire.got[j]
      /\ chat.wire.named \subseteq chat'.wire.named
      /\ j \in DOMAIN chat'.tools <=> j \in DOMAIN chat.tools
      /\ j \in DOMAIN chat.tools => chat'.tools[j] = chat.tools[j]
  BY DEF Alike
<1>4. Told(j)
  BY DEF ChatTold
<1> QED
  BY <1>2, <1>3, <1>4 DEF Told, MessageTold, CallTold

-----------------------------------------------------------------------------
(***************************************************************************)
(* Every event keeps the client up to date.                                *)
(***************************************************************************)
LEMMA MessageAddedEmpty ==
  ASSUME NEW ev \in Events, ev.type = "item.added", ev.item \in Messages
  PROVE  ev.n = 0
<1>1. \A types, items, amounts, sigs :
        ev \in Ev(types, items, amounts, sigs)
          => ev.type \in types /\ ev.item \in items /\ ev.n \in amounts
  BY DEF Ev
<1>2. \A types, items, sigs :
        ev \in Whole(types, items, sigs) => ev.type \in types /\ ev.item \in items
  <2> SUFFICES ASSUME NEW types, NEW items, NEW sigs, ev \in Whole(types, items, sigs)
               PROVE  ev.type \in types /\ ev.item \in items
    OBVIOUS
  <2>1. PICK i \in items : ev \in Ev(types, {i}, {0, Full[i]}, sigs)
    BY DEF Whole
  <2> QED
    BY <1>1, <2>1
<1>3. ev.item \notin Calls /\ ev.item \notin Reasonings
  BY ItemsAssumption
<1> QED
  BY <1>1, <1>2, <1>3 DEF Events

LEMMA SendChunkEffect ==
  ASSUME NEW s, IsChat(s), IsChunks(s.wire), DOMAIN s.wire.got = Items, NEW i, NEW n
  PROVE  /\ Alike(s, SendChunk(s, i, n), i)
         /\ i \in Items => SendChunk(s, i, n).wire.got[i] = s.wire.got[i] + n
<1> DEFINE v == Chunk(s.wire, ~s.sentRole, i, n)
           r == [s EXCEPT !.sentRole = TRUE, !.wire = v]
<1>1. SendChunk(s, i, n) = r
  BY DEF SendChunk
<1>2. /\ i \in Items => Gained(s.wire, v, i, n)
      /\ i \notin Items => v.got = s.wire.got
      /\ v.named = s.wire.named
  <2>1. (~s.sentRole) \in BOOLEAN
    OBVIOUS
  <2>2. PICK role \in BOOLEAN : v = Chunk(s.wire, role, i, n)
    BY <2>1, Zenon
  <2> HIDE DEF v
  <2> QED
    BY <2>2, ChunkGot
<1> HIDE DEF v
<1>3. r.wire = v /\ r.tools = s.tools
  BY DEF IsChat
<1> HIDE DEF r
<1> QED
  BY <1>1, <1>2, <1>3 DEF Alike, Gained

LEMMA MessageEventTold ==
  ASSUME orderly, UpstreamTyped, NEW ev \in Events, Sends(ev), ev.item \in Messages,
         MessageTold(ev.item),
         \/ /\ ev.type = "output_text.delta"
            /\ chat'.wire.got[ev.item] = chat.wire.got[ev.item] + ev.n
         \/ /\ ev.type \in {"item.added", "content_part.added", "content_part.done", "item.done"}
            /\ chat' = chat
  PROVE  MessageTold(ev.item)'
<1> DEFINE i == ev.item
<1>1. i \in Items
  BY DEF Items
<1>2. /\ Full[i] \in Nat \ {0} /\ sent[i].parts \in 0 .. Full[i]
      /\ sent'[i].parts = IF ev.type \in Ends THEN Full[i] ELSE sent[i].parts + ev.n
      /\ (sent'[i].closed <=> sent[i].closed \/ ev.type \in Ends)
      /\ (sent'[i].whole <=> sent[i].whole \/ (ev.type \in Ends /\ sent[i].parts = 0))
  BY <1>1, SentOfItem DEF Sending
<1>3. MaySendItem(ev)
  BY <1>1, SentOfItem
<1>4. CASE ev.type = "output_text.delta"
  <2>1. ev.n = 1 /\ ev.type \notin Ends
    BY <1>1, <1>4, EventAmounts DEF Deltas, PartBegins, Ends
  <2>2. ~sent[i].closed
    BY <1>3, <1>4 DEF MaySendItem, MaySendDelta, Deltas
  <2> QED
    BY <1>2, <1>4, <2>1, <2>2 DEF MessageTold
<1>5. CASE ev.type \in {"item.added", "content_part.added"}
  <2>1. ev.n = 0
    BY <1>1, <1>5, EventAmounts, MessageAddedEmpty DEF Deltas, PartBegins, Ends
  <2>2. ev.type \notin Ends /\ ev.type # "output_text.delta"
    BY <1>5 DEF Ends
  <2> QED
    BY <1>2, <2>1, <2>2 DEF MessageTold
<1>6. CASE ev.type \in {"content_part.done", "item.done"}
  <2>1. ev.type \in Ends /\ ev.type # "output_text.delta"
    BY <1>6 DEF Ends
  <2>2. sent[i].parts \in {0, Full[i]}
    BY <1>3, <2>1 DEF MaySendItem, MaySendWhole
  <2> QED
    BY <1>2, <2>1, <2>2 DEF MessageTold
<1> QED
  BY <1>4, <1>5, <1>6

\* An announced call is new to the translator: an orderly upstream announces it
\* once, before everything else.
LEMMA CallAddedTold ==
  ASSUME orderly, UpstreamTyped, ChatTyped(chat), IsChunks(chat.wire),
         DOMAIN chat.wire.got = Items, NEW ev \in Events, Sends(ev), ChatCallAdded(ev),
         CallTold(ev.item)
  PROVE  CallTold(ev.item)' /\ Alike(chat, chat', ev.item)
<1> DEFINE i == ev.item
<1>1. ev.type = "item.added" /\ i \in Calls /\ i \in Items /\ ev.type \notin Ends
  BY DEF ChatCallAdded, Items, Ends
<1>2. i \notin Messages
  BY <1>1, ItemsAssumption
<1>3. /\ MaySendItem(ev)
      /\ Full[i] \in Nat \ {0} /\ sent[i].parts \in 0 .. Full[i]
      /\ sent'[i].parts = sent[i].parts + ev.n
      /\ (sent'[i].closed <=> sent[i].closed) /\ sent'[i].added
  BY <1>1, <1>2, SentOfItem DEF Sending
<1>4. sent[i].parts = 0 /\ ~sent[i].added
  BY <1>1, <1>3 DEF MaySendItem
<1>5. i \notin DOMAIN chat.tools /\ ~sent[i].closed /\ chat.wire.got[i] = 0
  BY <1>3, <1>4 DEF CallTold
<1>6. PICK named \in BOOLEAN : named /\ chat' = SendTool(EnsureTool(chat, i, named), i, 0)
  <2>1. chat' = SendTool(EnsureTool(chat, i, TRUE), i, 0)
    BY DEF ChatCallAdded, ChatBecomes
  <2> QED
    BY <2>1, Zenon
<1> DEFINE s == EnsureTool(chat, i, named)
<1>7. ChatTyped(s)
  BY <1>1, EnsureToolTyped
<1>8. /\ Alike(chat, s, i) /\ s.wire = chat.wire /\ i \in DOMAIN s.tools
      /\ ~s.tools[i].sawArgs /\ ~s.tools[i].finalized /\ ~s.tools[i].identitySent
      /\ s.tools[i].named
  <2>1. /\ Alike(chat, s, i) /\ s.wire = chat.wire /\ i \in DOMAIN s.tools
        /\ i \notin DOMAIN chat.tools =>
             /\ ~s.tools[i].sawArgs /\ ~s.tools[i].finalized /\ ~s.tools[i].identitySent
             /\ (s.tools[i].named <=> named)
    BY <1>1, EnsureToolEffect
  <2>2. named
    BY <1>6, Zenon
  <2> HIDE DEF s
  <2> QED
    BY <1>5, <2>1, <2>2, Zenon
<1>9. chat' = SendTool(s, i, 0)
  BY <1>6
<1> HIDE DEF s
<1>10. /\ Alike(s, chat', i) /\ i \in DOMAIN chat'.tools
       /\ chat'.wire.got[i] = 0 /\ i \in chat'.wire.named
       /\ ~chat'.tools[i].sawArgs /\ ~chat'.tools[i].finalized
  <2>1. IsChunks(s.wire) /\ DOMAIN s.wire.got = Items
    BY <1>8
  <2> DEFINE r == SendTool(s, i, 0)
  <2>2. /\ Alike(s, r, i) /\ i \in DOMAIN r.tools
        /\ r.wire.got[i] = s.wire.got[i] + 0
        /\ ~s.tools[i].identitySent /\ s.tools[i].named => i \in r.wire.named
        /\ (r.tools[i].sawArgs <=> s.tools[i].sawArgs)
        /\ (r.tools[i].finalized <=> s.tools[i].finalized)
    BY <1>7, <1>8, <2>1, SendToolEffect
  <2> HIDE DEF r
  <2>3. chat' = r
    BY <1>9 DEF r
  <2> QED
    BY <1>5, <1>8, <2>2, <2>3
<1>11. Alike(chat, chat', i)
  BY <1>8, <1>10 DEF Alike
<1>12. sent'[i].parts \in {0, Full[i]}
  BY <1>1, <1>3, <1>4, EventAmounts DEF Deltas, PartBegins
<1> QED
  BY <1>3, <1>5, <1>10, <1>11, <1>12 DEF CallTold

LEMMA ArgumentsTold ==
  ASSUME orderly, UpstreamTyped, ChatTyped(chat), IsChunks(chat.wire),
         DOMAIN chat.wire.got = Items, NEW ev \in Events, Sends(ev), ChatArguments(ev),
         CallTold(ev.item)
  PROVE  CallTold(ev.item)' /\ Alike(chat, chat', ev.item)
<1> DEFINE i == ev.item
<1>1. ev.type = "arguments.delta" /\ i \in Calls /\ i \in Items /\ ev.type \notin Ends
  BY EventItems DEF ChatArguments, Items, Ends
<1>2. ev.n = 1
  BY <1>1, EventAmounts DEF Deltas, PartBegins
<1>3. /\ MaySendItem(ev)
      /\ Full[i] \in Nat \ {0} /\ sent[i].parts \in 0 .. Full[i]
      /\ sent'[i].parts = sent[i].parts + 1
      /\ (sent'[i].closed <=> sent[i].closed) /\ (sent'[i].added <=> sent[i].added)
  BY <1>1, <1>2, SentOfItem DEF Sending
<1>4. ~sent[i].closed /\ sent[i].parts < Full[i] /\ sent[i].added
  BY <1>1, <1>3 DEF MaySendItem, MaySendDelta, Deltas
<1>5. /\ i \in DOMAIN chat.tools /\ i \in chat.wire.named
      /\ ~chat.tools[i].finalized /\ chat.wire.got[i] = sent[i].parts
  <2>1. sent[i] # Untouched
    BY <1>4 DEF Untouched
  <2> QED
    BY <1>3, <1>4, <2>1 DEF CallTold
<1>6. PICK named \in BOOLEAN : chat' = SendTool(SawArgs(EnsureTool(chat, i, named), i), i, ev.n)
  <2>1. chat' = SendTool(SawArgs(EnsureTool(chat, i, FALSE), i), i, ev.n)
    BY DEF ChatArguments, ChatBecomes
  <2> QED
    BY <2>1, Zenon
<1> DEFINE s == EnsureTool(chat, i, named)
           a == SawArgs(s, i)
           r == SendTool(a, i, ev.n)
<1>7. chat' = r
  BY <1>6
<1>8. ChatTyped(s)
  BY <1>1, EnsureToolTyped
<1>9. /\ Alike(chat, s, i) /\ s.wire = chat.wire /\ i \in DOMAIN s.tools
      /\ ~s.tools[i].finalized
  <2>1. /\ Alike(chat, s, i) /\ s.wire = chat.wire /\ i \in DOMAIN s.tools
        /\ i \in DOMAIN chat.tools => (s.tools[i].finalized <=> chat.tools[i].finalized)
    BY <1>1, EnsureToolEffect
  <2> HIDE DEF s
  <2> QED
    BY <1>5, <2>1, Zenon
<1> HIDE DEF s
<1>10. ChatTyped(a)
  BY <1>8, <1>9, SawArgsTyped
<1>11. /\ Alike(s, a, i) /\ a.wire = s.wire /\ i \in DOMAIN a.tools
       /\ a.tools[i].sawArgs /\ ~a.tools[i].finalized
  <2>1. /\ Alike(s, a, i) /\ a.wire = s.wire /\ i \in DOMAIN a.tools
        /\ a.tools[i].sawArgs /\ (a.tools[i].finalized <=> s.tools[i].finalized)
    BY <1>8, <1>9, SawArgsEffect
  <2> QED
    BY <1>9, <2>1
<1> HIDE DEF a
<1>12. IsChunks(a.wire) /\ DOMAIN a.wire.got = Items
  BY <1>9, <1>11
<1>13. /\ Alike(a, r, i) /\ i \in DOMAIN r.tools
       /\ r.wire.got[i] = a.wire.got[i] + ev.n
       /\ r.tools[i].sawArgs /\ ~r.tools[i].finalized
  <2>1. /\ Alike(a, r, i) /\ i \in DOMAIN r.tools
        /\ r.wire.got[i] = a.wire.got[i] + ev.n
        /\ (r.tools[i].sawArgs <=> a.tools[i].sawArgs)
        /\ (r.tools[i].finalized <=> a.tools[i].finalized)
    BY <1>10, <1>11, <1>12, SendToolEffect
  <2> QED
    BY <1>11, <2>1
<1> HIDE DEF r
<1>14. Alike(chat, r, i)
  BY <1>9, <1>11, <1>13 DEF Alike
<1>15. i \in r.wire.named /\ r.wire.got[i] = sent[i].parts + 1
  BY <1>2, <1>5, <1>9, <1>11, <1>13, <1>14 DEF Alike
<1> QED
  BY <1>3, <1>4, <1>7, <1>13, <1>14, <1>15 DEF CallTold

\* The "done" event that finalizes a call brings what the client does not have;
\* a second one brings nothing.
LEMMA CallDoneTold ==
  ASSUME orderly, UpstreamTyped, ChatTyped(chat), IsChunks(chat.wire),
         DOMAIN chat.wire.got = Items, NEW ev \in Events, Sends(ev), ChatCallDone(ev),
         CallTold(ev.item)
  PROVE  CallTold(ev.item)' /\ Alike(chat, chat', ev.item)
<1> DEFINE i == ev.item
<1>1. i \in Calls /\ i \in Items /\ ev.type \in {"arguments.done", "item.done"}
      /\ ev.type \in Ends
  BY DEF ChatCallDone, Items, Ends
<1>2. /\ MaySendItem(ev)
      /\ Full[i] \in Nat \ {0} /\ sent[i].parts \in 0 .. Full[i]
      /\ sent'[i].parts = Full[i] /\ sent'[i].closed
  BY <1>1, SentOfItem DEF Sending
<1>3. /\ ev.n = Full[i] /\ sent[i].parts \in {0, Full[i]}
      /\ ev.type = "arguments.done" => sent[i].added
  BY <1>1, <1>2 DEF MaySendItem, MaySendWhole
<1>4. PICK named \in BOOLEAN :
        /\ named <=> ev.type = "item.done"
        /\ chat' = FinalizeTool(EnsureTool(chat, i, named), i, ev.n)
  <2>1. (ev.type = "item.done") \in BOOLEAN
    OBVIOUS
  <2> QED
    BY <2>1, Zenon DEF ChatCallDone, ChatBecomes
<1> DEFINE s == EnsureTool(chat, i, named)
           r == FinalizeTool(s, i, ev.n)
<1>5. chat' = r
  BY <1>4
<1>6. ChatTyped(s)
  BY <1>1, EnsureToolTyped
<1>7. /\ Alike(chat, s, i) /\ s.wire = chat.wire /\ i \in DOMAIN s.tools
      /\ i \in DOMAIN chat.tools =>
           /\ (s.tools[i].sawArgs <=> chat.tools[i].sawArgs)
           /\ (s.tools[i].finalized <=> chat.tools[i].finalized)
      /\ i \notin DOMAIN chat.tools =>
           /\ ~s.tools[i].sawArgs /\ ~s.tools[i].finalized /\ ~s.tools[i].identitySent
           /\ (s.tools[i].named <=> named)
  BY <1>1, EnsureToolEffect
<1> HIDE DEF s
<1>8. IsChunks(s.wire) /\ DOMAIN s.wire.got = Items
  BY <1>7
<1>9. /\ Alike(s, r, i) /\ i \in DOMAIN r.tools /\ r.tools[i].finalized
      /\ s.tools[i].finalized \/ s.tools[i].sawArgs => r.wire = s.wire
      /\ ~s.tools[i].finalized /\ ~s.tools[i].sawArgs =>
           /\ r.wire.got[i] = s.wire.got[i] + ev.n
           /\ ~s.tools[i].identitySent /\ s.tools[i].named => i \in r.wire.named
  BY <1>6, <1>7, <1>8, FinalizeToolEffect
<1> HIDE DEF r
<1>10. Alike(chat, r, i)
  BY <1>7, <1>9 DEF Alike
<1>11. r.wire.got[i] = Full[i] /\ i \in r.wire.named
  <2>1. CASE i \notin DOMAIN chat.tools
    <3>1. sent[i] = Untouched /\ chat.wire.got[i] = 0
      BY <2>1 DEF CallTold
    <3>2. ev.type = "item.done"
      BY <1>1, <1>3, <3>1 DEF Untouched
    <3>3. named
      BY <1>4, <3>2, Zenon
    <3>4. /\ ~s.tools[i].sawArgs /\ ~s.tools[i].finalized /\ ~s.tools[i].identitySent
          /\ s.tools[i].named
      BY <1>7, <2>1, <3>3, Zenon
    <3> QED
      BY <1>2, <1>3, <1>7, <1>9, <3>1, <3>4
  <2>2. CASE i \in DOMAIN chat.tools
    <3>1. i \in r.wire.named
      BY <1>10, <2>2 DEF Alike, CallTold
    <3>2. CASE chat.tools[i].finalized
      <4>1. chat.wire.got[i] = Full[i]
        BY <2>2, <3>2 DEF CallTold
      <4> QED
        BY <1>7, <1>9, <2>2, <3>1, <3>2, <4>1
    <3>3. CASE ~chat.tools[i].finalized /\ chat.tools[i].sawArgs
      <4>1. chat.wire.got[i] = Full[i]
        BY <1>2, <1>3, <2>2, <3>3 DEF CallTold
      <4> QED
        BY <1>7, <1>9, <2>2, <3>1, <3>3, <4>1
    <3>4. CASE ~chat.tools[i].finalized /\ ~chat.tools[i].sawArgs
      <4>1. chat.wire.got[i] = 0
        BY <2>2, <3>4 DEF CallTold
      <4>2. r.wire.got[i] = 0 + Full[i]
        BY <1>3, <1>7, <1>9, <2>2, <3>4, <4>1
      <4> QED
        BY <1>2, <3>1, <4>2
    <3> QED
      BY <3>2, <3>3, <3>4
  <2> QED
    BY <2>1, <2>2
<1> QED
  BY <1>2, <1>5, <1>9, <1>10, <1>11 DEF CallTold

\* The end of a stream tells the client nothing of the items.
SaysNothing(s, r) ==
  r.wire.got = s.wire.got /\ r.wire.named = s.wire.named /\ r.tools = s.tools

LEMMA EndsSayNothing ==
  ASSUME NEW s, IsChat(s), IsChunks(s.wire), NEW how
  PROVE  /\ SaysNothing(s, FinishChat(s, how))
         /\ SaysNothing(s, ErrorChunk(s))
         /\ SaysNothing(s, CloseChat(s))
<1>1. ASSUME NEW q, IsChat(q), NEW w, w.got = q.wire.got, w.named = q.wire.named
      PROVE  /\ SaysNothing(q, [q EXCEPT !.terminal = TRUE, !.wire = w])
             /\ SaysNothing(q, [q EXCEPT !.wire = w])
  BY <1>1 DEF IsChat, SaysNothing
<1>2. SaysNothing(s, s)
  BY DEF SaysNothing
<1>3. SaysNothing(s, FinishChat(s, how))
  <2> DEFINE tools == IF DOMAIN s.tools = {} THEN "stop" ELSE "tool_calls"
             v == FinishChunk(s.wire, IF how = "none" THEN tools ELSE how)
  <2>1. FinishChat(s, how) = s \/ FinishChat(s, how) = [s EXCEPT !.terminal = TRUE, !.wire = v]
    BY DEF FinishChat
  <2>2. v.got = s.wire.got /\ v.named = s.wire.named
    BY FinishChunkGot
  <2> HIDE DEF v
  <2>3. SaysNothing(s, [s EXCEPT !.terminal = TRUE, !.wire = v])
    BY <1>1, <2>2, Zenon
  <2> QED
    BY <1>2, <2>1, <2>3, Zenon
<1>4. SaysNothing(s, ErrorChunk(s)) /\ IsChat(ErrorChunk(s)) /\ IsChunks(ErrorChunk(s).wire)
  <2> DEFINE v == FinishChunk(s.wire, "error")
             r == [s EXCEPT !.terminal = TRUE, !.wire = v]
  <2>1. v.got = s.wire.got /\ v.named = s.wire.named
    BY FinishChunkGot
  <2>2. IsChunks(v)
    BY DEF FinishChunk, IsChunks
  <2>3. ErrorChunk(s) = r
    BY DEF ErrorChunk
  <2> HIDE DEF v
  <2>4. SaysNothing(s, r)
    BY <1>1, <2>1, Zenon
  <2>5. IsChat(r) /\ r.wire = v
    BY DEF IsChat
  <2> HIDE DEF r
  <2> QED
    BY <2>2, <2>3, <2>4, <2>5
<1>5. SaysNothing(s, CloseChat(s))
  <2> DEFINE r == IF s.terminal THEN s ELSE ErrorChunk(s)
             v == DoneChunk(r.wire)
  <2>1. IsChat(r) /\ IsChunks(r.wire) /\ SaysNothing(s, r)
    BY <1>2, <1>4
  <2>2. CloseChat(s) = [r EXCEPT !.wire = v]
    BY DEF CloseChat
  <2> HIDE DEF r
  <2>3. v.got = r.wire.got /\ v.named = r.wire.named
    BY <2>1, FinishChunkGot
  <2> HIDE DEF v
  <2>4. SaysNothing(r, [r EXCEPT !.wire = v])
    BY <1>1, <2>1, <2>3, Zenon
  <2>5. SaysNothing(r, CloseChat(s))
    BY <2>2, <2>4
  <2> QED
    BY <2>1, <2>5 DEF SaysNothing
<1> QED
  BY <1>3, <1>4, <1>5

LEMMA SendChunkSaysNothing ==
  ASSUME NEW s, IsChat(s), IsChunks(s.wire), DOMAIN s.wire.got = Items, NEW i, i \notin Items,
         NEW n
  PROVE  SaysNothing(s, SendChunk(s, i, n))
<1> DEFINE v == Chunk(s.wire, ~s.sentRole, i, n)
           r == [s EXCEPT !.sentRole = TRUE, !.wire = v]
<1>1. SendChunk(s, i, n) = r
  BY DEF SendChunk
<1>2. v.got = s.wire.got /\ v.named = s.wire.named
  BY DEF Chunk, IsChunks
<1> HIDE DEF v
<1>3. r.wire = v /\ r.tools = s.tools
  BY DEF IsChat
<1> QED
  BY <1>1, <1>2, <1>3 DEF SaysNothing

LEMMA EndEventsBare ==
  ASSUME NEW ev \in Events,
         ev.type \in {"created", "failed", "[DONE]", "invalid", "completed", "incomplete"}
  PROVE  ev.item \notin Items
<1>1. ASSUME ev.item \in Items PROVE FALSE
  BY <1>1, EventAmounts DEF Deltas, PartBegins, Ends
<1> QED
  BY <1>1

LEMMA ChatEventTold ==
  ASSUME orderly, UpstreamTyped, ChatTyped(chat), ChatGood(chat),
         DOMAIN chat.wire.got = Items, ChatTold, NEW ev \in Events, ChatProcess(ev), Sends(ev)
  PROVE  ChatTold' /\ DOMAIN chat'.wire.got = Items
<1> DEFINE i == ev.item
<1>1. IsChat(chat) /\ IsChunks(chat.wire)
  BY DEF ChatGood, Talking
<1>2. /\ Messages \cap Calls = {} /\ Messages \cap Reasonings = {} /\ Calls \cap Reasonings = {}
      /\ NoItem \notin Items
  BY ItemsAssumption
<1>3. i \in Items => Told(i)
  BY DEF ChatTold
<1>4. ASSUME Alike(chat, chat', i), i \in Items => Told(i)'
      PROVE  ChatTold' /\ DOMAIN chat'.wire.got = Items
  BY <1>4, ToldElsewhere
<1>5. ASSUME SaysNothing(chat, chat'), i \notin Items
      PROVE  ChatTold' /\ DOMAIN chat'.wire.got = Items
  <2>1. Alike(chat, chat', i)
    BY <1>5 DEF SaysNothing, Alike
  <2> QED
    BY <1>4, <1>5, <2>1
<1>6. ev.type \in {"created", "failed", "[DONE]", "invalid", "completed", "incomplete"}
        => i \notin Items
  BY EndEventsBare
<1>7. CASE ChatCreated(ev)
  <2>1. i \notin Items
    BY <1>6, <1>7 DEF ChatCreated
  <2>2. chat' = chat \/ chat' = SendChunk(chat, NoItem, 0)
    BY <1>7 DEF ChatCreated, ChatBecomes
  <2>3. SaysNothing(chat, SendChunk(chat, NoItem, 0)) /\ SaysNothing(chat, chat)
    BY <1>1, <1>2, SendChunkSaysNothing DEF SaysNothing
  <2> QED
    BY <1>5, <2>1, <2>2, <2>3
<1>8. CASE ChatText(ev)
  <2>1. i \in Messages /\ i \in Items /\ ev.type = "output_text.delta"
    BY <1>8, EventItems DEF ChatText, Items
  <2>2. chat' = SendChunk(chat, i, ev.n)
    BY <1>8 DEF ChatText, ChatBecomes
  <2>3. Alike(chat, chat', i) /\ chat'.wire.got[i] = chat.wire.got[i] + ev.n
    BY <1>1, <2>1, <2>2, SendChunkEffect
  <2>4. MessageTold(i)
    BY <1>3, <2>1 DEF Told
  <2>5. MessageTold(i)'
    BY <2>1, <2>3, <2>4, MessageEventTold
  <2>6. Told(i)'
    BY <1>2, <2>1, <2>5 DEF Told
  <2> QED
    BY <1>4, <2>3, <2>6
<1>9. CASE ChatCallAdded(ev) \/ ChatArguments(ev) \/ ChatCallDone(ev)
  <2>1. i \in Calls /\ i \in Items
    BY <1>9, EventItems DEF ChatCallAdded, ChatArguments, ChatCallDone, Items
  <2>2. CallTold(i)
    BY <1>3, <2>1 DEF Told
  <2>3. CallTold(i)' /\ Alike(chat, chat', i)
    BY <1>1, <1>9, <2>2, CallAddedTold, ArgumentsTold, CallDoneTold
  <2>4. Told(i)'
    BY <1>2, <2>1, <2>3 DEF Told
  <2> QED
    BY <1>4, <2>3, <2>4
<1>10. CASE ChatIgnored(ev)
  <2>1. chat' = chat
    BY <1>10 DEF ChatIgnored, ChatBecomes
  <2>2. Alike(chat, chat', i)
    BY <2>1 DEF Alike
  <2>3. ASSUME i \in Items PROVE Told(i)'
    <3>1. i \notin Calls
      BY <1>2, <1>10, EventItems DEF ChatIgnored, PartBegins
    <3>2. CASE i \in Reasonings
      BY <1>2, <1>3, <2>1, <2>3, <3>1, <3>2 DEF Told
    <3>3. CASE i \in Messages
      <4>1. ev.type \in {"item.added", "content_part.added", "content_part.done", "item.done"}
        BY <1>2, <1>10, <3>3, EventItems DEF ChatIgnored, PartBegins
      <4>2. MessageTold(i)
        BY <1>3, <2>3, <3>3 DEF Told
      <4>3. MessageTold(i)'
        BY <2>1, <3>3, <4>1, <4>2, MessageEventTold
      <4> QED
        BY <1>2, <3>1, <3>3, <4>3 DEF Told
    <3> QED
      BY <2>3, <3>1, <3>2, <3>3 DEF Items
  <2> QED
    BY <1>4, <2>2, <2>3
<1>11. CASE ChatCompleted(ev) \/ ChatDoneMark(ev) \/ ChatFailed(ev) \/ ChatInvalid(ev)
  <2>1. i \notin Items
    BY <1>6, <1>11 DEF ChatCompleted, ChatDoneMark, ChatFailed, ChatInvalid
  <2>2. SaysNothing(chat, chat')
    BY <1>1, <1>11, EndsSayNothing
       DEF ChatCompleted, ChatDoneMark, ChatFailed, ChatInvalid, ChatBecomes
  <2> QED
    BY <1>5, <2>1, <2>2
<1> QED
  BY <1>7, <1>8, <1>9, <1>10, <1>11 DEF ChatProcess

LEMMA ChatWholeBodyTold ==
  ASSUME ChatWholeBody
  PROVE  chatOver' /\ ChatWhole' /\ DOMAIN chat'.wire.got = Items
<1> DEFINE got == [i \in Items |-> ChatTranslated(i)]
<1>1. IsChunks(chat.wire) /\ IsChat(chat)
  BY DEF ChatWholeBody, NewChatTranslator, NoChunks, IsChunks, IsChat
<1>2. PICK incomplete \in BOOLEAN :
        chat' = [chat EXCEPT
                   !.wire = DoneChunk([FinishChunk(Chunk(chat.wire, TRUE, NoItem, 0),
                                                   ChatReason(incomplete))
                                       EXCEPT !.got = [i \in Items |-> ChatTranslated(i)],
                                              !.named = Calls])]
  BY Zenon DEF ChatWholeBody
<1> DEFINE c == Chunk(chat.wire, TRUE, NoItem, 0)
           f == FinishChunk(c, ChatReason(incomplete))
           w == [f EXCEPT !.got = got, !.named = Calls]
           v == DoneChunk(w)
<1>3. chat' = [chat EXCEPT !.wire = v]
  BY <1>2
<1>4. IsChunks(c)
  BY <1>1 DEF Chunk, IsChunks
<1> HIDE DEF c
<1>5. IsChunks(f)
  BY <1>4 DEF FinishChunk, IsChunks
<1>6. DOMAIN got = Items /\ \A i \in Items : got[i] = ChatTranslated(i)
  OBVIOUS
<1> HIDE DEF f, got
<1>7. w.got = got /\ w.named = Calls /\ IsChunks(w)
  BY <1>5 DEF IsChunks
<1> HIDE DEF w
<1>8. v.got = got /\ v.named = Calls
  BY <1>7, FinishChunkGot
<1> HIDE DEF v
<1>9. chat'.wire = v
  BY <1>1, <1>3 DEF IsChat
<1>10. ChatWhole'
  <2> SUFFICES ASSUME NEW i \in Items
               PROVE  chat'.wire.got[i] = ChatTranslated(i) /\ (i \in Calls => i \in chat'.wire.named)
    BY DEF ChatWhole, ChatTranslated
  <2> QED
    BY <1>6, <1>8, <1>9
<1> QED
  BY <1>6, <1>8, <1>9, <1>10 DEF ChatWholeBody

LEMMA ToldInit == Init => ToldInv
<1> SUFFICES ASSUME Init PROVE ToldInv
  OBVIOUS
<1>1. chat = NewChatTranslator /\ verdict = "none" /\ sent = [i \in Items |-> Untouched]
  BY DEF Init, UpstreamInit, ChatInit
<1>2. chat.tools = <<>> /\ chat.wire.got = [i \in Items |-> 0]
  BY <1>1 DEF NewChatTranslator, NoChunks
<1>3. DOMAIN chat.tools = {}
  BY <1>2
<1>4. ASSUME NEW i \in Items PROVE Told(i)
  <2>1. /\ chat.wire.got[i] = 0 /\ sent[i] = Untouched /\ sent[i].parts = 0
        /\ ~sent[i].closed /\ ~sent[i].whole
    BY <1>1, <1>2, <1>4 DEF Untouched
  <2> QED
    BY <1>3, <2>1 DEF Told, MessageTold, CallTold
<1> QED
  BY <1>1, <1>2, <1>4 DEF ToldInv, ChatTold

LEMMA ToldNext == HonestInv /\ StreamsTyped /\ ToldInv /\ [Next]_vars => ToldInv'
<1> SUFFICES ASSUME HonestInv, StreamsTyped, ToldInv, [Next]_vars,
                    orderly', endpoint' = "chat"
             PROVE  /\ DOMAIN chat'.wire.got = Items
                    /\ ChatTold' \/ (chatOver' /\ ChatWhole')
                    /\ verdict' = "ok" => (\A i \in Items : Settled(i)') \/ ChatWhole'
  BY DEF ToldInv
<1>1. endpoint = "chat"
  BY DEF Next, vars
<1>2. CASE UNCHANGED vars
  <2>1. orderly
    BY <1>2 DEF vars, upstreamVars
  <2>2. sent' = sent /\ chat' = chat /\ chatOver' = chatOver /\ verdict' = verdict
    BY <1>2 DEF vars, upstreamVars, chatVars
  <2> QED
    BY <1>1, <2>1, <2>2
       DEF ToldInv, ChatTold, Told, MessageTold, CallTold, ChatWhole, ChatTranslated, Settled
<1>3. CASE ChatNext
  <2>1. orderly /\ ~chatOver
    <3>1. ASSUME NEW ev, ChatProcess(ev), Sends(ev) PROVE orderly' = orderly /\ ~chatOver
      BY <3>1 DEF ChatProcess, Sends
    <3>2. CASE ChatEOF /\ UNCHANGED upstreamVars
      BY <3>2 DEF ChatEOF, upstreamVars
    <3>3. CASE ChatWholeBody
      BY <3>3 DEF ChatWholeBody
    <3> QED
      BY <1>3, <3>1, <3>2, <3>3, ProcessSends DEF ChatNext
  <2>2. /\ DOMAIN chat.wire.got = Items /\ ChatTold /\ ChatGood(chat) /\ ChatTyped(chat)
        /\ UpstreamTyped /\ (chat.terminal <=> verdict # "none")
    BY <1>1, <2>1 DEF ToldInv, HonestInv, ChatInv, ChatHonest, StreamsTyped
  <2>3. verdict = "ok" => (\A i \in Items : Settled(i)) \/ ChatWhole
    BY <1>1, <2>1 DEF ToldInv
  <2>4. ASSUME NEW ev \in Events, ChatProcess(ev), Sends(ev)
        PROVE  /\ ChatTold' /\ DOMAIN chat'.wire.got = Items
               /\ verdict' = "ok" => (\A i \in Items : Settled(i)') \/ ChatWhole'
    <3>1. ChatTold' /\ DOMAIN chat'.wire.got = Items
      BY <2>1, <2>2, <2>4, ChatEventTold
    <3>2. CASE ev.type \in {"completed", "incomplete"}
      <4>1. \A i \in Items : Settled(i)
        BY <2>1, <2>4, <3>2 DEF Sends, MaySend, MaySendVerdict, Settled
      <4>2. ev.item \notin Items
        BY <3>2, EndEventsBare
      <4>3. sent' = sent
        BY <2>1, <2>4, <4>2 DEF Sends
      <4> QED
        BY <3>1, <4>1, <4>3 DEF Settled
    <3>3. CASE ev.type = "[DONE]"
      <4>1. ev.item \notin Items
        BY <3>3, EndEventsBare
      <4>2. sent' = sent /\ verdict' = verdict
        BY <2>1, <2>4, <3>3, <4>1 DEF Sends, Verdicts
      <4>3. verdict # "none"
        BY <2>1, <2>4, <3>3, OrderlySends
      <4>4. chat.terminal
        BY <2>2, <4>3
      <4>5. ChatDoneMark(ev)
        BY <2>4, <3>3, EventItems
           DEF ChatProcess, ChatCreated, ChatText, ChatCallAdded, ChatArguments, ChatCallDone,
               ChatCompleted, ChatFailed, ChatInvalid, ChatIgnored, PartBegins
      <4>6. chat' = chat
        BY <4>4, <4>5 DEF ChatDoneMark, ChatBecomes, FinishChat
      <4> QED
        BY <2>3, <3>1, <4>2, <4>6 DEF Settled, ChatWhole, ChatTranslated
    <3>4. CASE ev.type \notin {"completed", "incomplete", "[DONE]"}
      <4>1. verdict = "none"
        BY <2>1, <2>4, <3>4, OrderlySends
      <4>2. verdict' # "ok"
        BY <2>1, <2>4, <3>4, <4>1 DEF Sends, Verdicts
      <4> QED
        BY <3>1, <4>2
    <3> QED
      BY <3>2, <3>3, <3>4
  <2>5. CASE ChatEOF /\ UNCHANGED upstreamVars
    <3>1. sent' = sent /\ verdict' = verdict /\ chat' = CloseChat(chat)
      BY <2>5 DEF ChatEOF, upstreamVars
    <3>2. SaysNothing(chat, chat')
      BY <2>2, <3>1, EndsSayNothing DEF ChatGood, Talking
    <3> QED
      BY <2>2, <2>3, <3>1, <3>2
         DEF SaysNothing, ChatTold, Told, MessageTold, CallTold, ChatWhole, ChatTranslated, Settled
  <2>6. CASE ChatWholeBody
    BY <2>6, ChatWholeBodyTold
  <2> QED
    BY <1>3, <2>4, <2>5, <2>6, ProcessSends DEF ChatNext
<1> QED
  BY <1>1, <1>2, <1>3 DEF Next

\* On /v1/chat/completions, for any answer of an orderly upstream: a stream that
\* ended normally has said every call the upstream has announced or finished,
\* in full and with its name, and every message that came in deltas, however
\* deltas, "done" events and repeated payloads were mixed.
THEOREM ChatAnswerComplete == Spec => []ChatComplete
<1>1. Spec => [](HonestInv /\ StreamsTyped /\ ToldInv)
  BY HonestInit, HonestNext, StreamsTypedInit, StreamsTypedNext, ToldInit, ToldNext, PTL
     DEF Spec
<1>2. HonestInv /\ StreamsTyped /\ ToldInv => ChatComplete
  <2> SUFFICES ASSUME HonestInv, StreamsTyped, ToldInv, orderly,
                      chat.wire.end \in {"stop", "length", "tool_calls"},
                      NEW i \in Items
               PROVE  \/ /\ chat.wire.got[i] = ChatTranslated(i)
                         /\ i \in Calls => i \in chat.wire.named
                      \/ /\ chat.wire.got[i] = 0
                         /\ IF i \in Calls THEN sent[i] = Untouched
                                           ELSE sent[i].whole \/ ~Conveyed(i)
    BY DEF ChatComplete
  <2>1. endpoint = "chat" /\ verdict = "ok"
    BY DEF HonestInv, ChatHonest
  <2>2. CASE ChatWhole
    BY <2>2 DEF ChatWhole
  <2>3. CASE Told(i) /\ Settled(i)
    <3>1. Full[i] \in Nat \ {0}
      BY BoundsAssumption
    <3>2. i \in Calls \cup Messages => i \notin Reasonings
      BY ItemsAssumption
    <3>3. CASE i \in Reasonings
      BY <2>3, <3>2, <3>3 DEF Told, ChatTranslated
    <3>4. CASE i \in Messages
      <4>1. ChatTranslated(i) = Full[i] /\ i \notin Calls
        BY <3>2, <3>4, ItemsAssumption DEF ChatTranslated
      <4>2. MessageTold(i)
        BY <2>3, <3>4 DEF Told
      <4>3. CASE sent[i] = Untouched
        BY <3>1, <4>1, <4>2, <4>3 DEF MessageTold, Untouched, Conveyed
      <4>4. CASE sent[i].closed
        BY <4>1, <4>2, <4>4 DEF MessageTold
      <4> QED
        BY <2>3, <4>3, <4>4 DEF Settled
    <3>5. CASE i \in Calls
      <4>1. ChatTranslated(i) = Full[i]
        BY <3>2, <3>5 DEF ChatTranslated
      <4>2. CallTold(i)
        BY <2>3, <3>5 DEF Told
      <4>3. CASE i \notin DOMAIN chat.tools
        BY <3>5, <4>2, <4>3 DEF CallTold
      <4>4. CASE i \in DOMAIN chat.tools
        <5>1. sent[i].closed
          BY <2>3, <4>2, <4>4 DEF CallTold, Settled, Untouched
        <5> QED
          BY <4>1, <4>2, <4>4, <5>1 DEF CallTold
      <4> QED
        BY <4>3, <4>4
    <3> QED
      BY <3>3, <3>4, <3>5 DEF Items
  <2> QED
    BY <2>1, <2>2, <2>3 DEF ToldInv, ChatTold
<1> QED
  BY <1>1, <1>2, PTL

-----------------------------------------------------------------------------
(***************************************************************************)
(* On /v1/messages everything arrives too, once.  The invariant relates    *)
(* what an orderly upstream has sent of each item to what the client has   *)
(* of it: while the answer is read the two agree but for the summary that  *)
(* the thinking mode hides, and at most one reasoning item is in hand;     *)
(* behind the terminal event each item is either whole with the client or  *)
(* untouched and still to be looked at; and the end finds none of those.   *)
(***************************************************************************)
Begun(i) == sent[i].parts > 0 \/ sent[i].opened > 0

\* An orderly upstream: what it has closed it has sent whole, and reasoning
\* items do not overlap.
UpstreamKnows ==
  /\ \A i \in Items : sent[i].closed => sent[i].parts = Full[i]
  /\ \A i \in Reasonings : sent[i].closed <=> sent[i].done
  /\ \A i, j \in OpenReasoning : i = j

\* Signatures are where they belong; the client's blocks of text and tools are
\* the registered ones, one for each item, tools by their names.
Booked(s) ==
  /\ DOMAIN s.wire.got = Items
  /\ \A x \in s.wire.signed : x[1] = x[2] /\ x[2] \in Signed
  /\ s.mode = "off" => s.wire.signed = {}
  /\ \A b \in 1 .. s.next :
       IF s.wire.blocks[b].kind = "thinking" THEN s.wire.blocks[b].item \in Reasonings
       ELSE \E k \in DOMAIN s.blocks :
              s.blocks[k].index = b /\ s.wire.blocks[b].item = k[1]
  /\ \A b \in 1 .. s.next : s.wire.blocks[b].kind = "tool" => s.wire.blocks[b].named
  /\ \A k, l \in DOMAIN s.blocks : k[1] = l[1] => k = l
  /\ \A k \in DOMAIN s.blocks : k[1] \in Calls => k = Key(k[1])
  /\ s.hasTool <=> \E k \in DOMAIN s.blocks : KindOf(k) = "tool"

ContentKnown(i) ==
  /\ <<i, TRUE>> \notin DOMAIN tr.blocks
  /\ tr.wire.got[i] = sent[i].parts
  /\ Emitted(tr, Key(i)) <=> sent[i].parts > 0
  /\ Registered(tr, Key(i)) =>
       sent[i] # Untouched /\ (tr.blocks[Key(i)].stopped => sent[i].closed)
  /\ sent[i].added => Registered(tr, Key(i))

ThoughtKnown(i) ==
  /\ tr.wire.got[i] = IF tr.mode = "summarized" THEN sent[i].parts ELSE 0
  /\ tr.mode # "off" =>
       /\ i \in OpenReasoning /\ Begun(i) => tr.thinking # Nowhere /\ tr.reasonKey = Key(i)
       /\ Key(i) \in tr.completed =>
            sent[i].done \/ (tr.thinking # Nowhere /\ tr.reasonKey = Key(i))
       /\ i \in OpenReasoning /\ sent[i].signed => tr.signature = i
       /\ sent[i].done =>
            /\ Key(i) \in tr.completed \/ (tr.mode = "omitted" /\ i \notin Signed)
            /\ i \in Signed => <<i, i>> \in tr.wire.signed
       /\ i \in Anonymous => FinalKey(i) \notin tr.completed

InHand ==
  tr.mode # "off" =>
    /\ tr.thinking # Nowhere =>
         \E i \in OpenReasoning : /\ tr.reasonKey = Key(i) /\ Begun(i)
                                  /\ tr.wire.blocks[tr.thinking].item = i
    /\ tr.signature # NoItem => tr.signature \in OpenReasoning \cap Signed

InReading ==
  /\ \A i \in Messages \cup Calls : ContentKnown(i)
  /\ \A i \in Reasonings : ThoughtKnown(i)
  /\ InHand

\* Reasoning without an id may come from its events and once more, under
\* another key, from the terminal event's output.
Delivered(s, i) ==
  /\ \/ s.wire.got[i] = Translated(s.mode, i)
     \/ /\ i \in Anonymous \cap Reasonings /\ FinalKey(i) \in s.completed
        /\ s.wire.got[i] = 2 * Translated(s.mode, i)
  /\ i \notin Reasonings => \E k \in DOMAIN s.blocks : k[1] = i /\ s.blocks[k].emitted
  /\ i \in Reasonings /\ s.mode # "off" =>
       /\ \/ Key(i) \in s.completed \/ FinalKey(i) \in s.completed
          \/ s.mode = "omitted" /\ i \notin Signed
       /\ i \in Signed => <<i, i>> \in s.wire.signed

Waiting(s, i) ==
  /\ s.wire.got[i] = 0
  /\ \A k \in DOMAIN s.blocks : k[1] # i
  /\ i \in Reasonings /\ s.mode # "off" =>
       Key(i) \notin s.completed /\ FinalKey(i) \notin s.completed
  /\ i \in Messages => Messages = {i}

\* Nothing is under way; each item is in the client's hands or untouched and
\* among those emitFinalOutput has still to look at.
Outstanding(s, todo) ==
  /\ s.thinking = Nowhere
  /\ s.mode # "off" => s.signature = NoItem
  /\ \A i \in Items : Delivered(s, i) \/ (Waiting(s, i) /\ \E n \in DOMAIN todo : todo[n] = i)

\* The answer ended normally: the client has all of it.
Ended ==
  /\ \A i \in Items : Delivered(tr, i)
  /\ DOMAIN tr.wire.blocks = 1 .. tr.next
  /\ \A said \in Plain(reason = "max_tokens") :
       tr.wire.end = TranslatedReason(reason = "max_tokens", said)

CompleteInv ==
  orderly =>
    /\ UpstreamKnows
    /\ Booked(tr)
    /\ reason \in {"end_turn", "max_tokens"}
    /\ tr.wire.end \in StopReasons => Ended
    /\ endpoint = "messages" /\ phase = "reading" /\ ~tr.finished => InReading
    /\ endpoint = "messages" /\ phase = "final" => Outstanding(tr, rest)

-----------------------------------------------------------------------------
(***************************************************************************)
(* Text and tool blocks: a helper touches one item and no reasoning.       *)
(***************************************************************************)
\* Nothing the client has been shown is taken back.
Grown(s, r) ==
  /\ s.next \in Nat /\ r.next \in Nat /\ s.next <= r.next
  /\ \A b \in 1 .. s.next :
       /\ r.wire.blocks[b].kind = s.wire.blocks[b].kind
       /\ r.wire.blocks[b].item = s.wire.blocks[b].item
       /\ s.wire.blocks[b].named => r.wire.blocks[b].named

SameThoughts(s, r) ==
  /\ r.mode = s.mode /\ r.thinking = s.thinking /\ r.signature = s.signature
  /\ r.reasonKey = s.reasonKey /\ r.completed = s.completed
  /\ r.wire.signed = s.wire.signed

\* A step from s to r is about item i alone, and not about reasoning in hand.
OnlyAbout(s, r, i) ==
  /\ Grown(s, r) /\ SameThoughts(s, r)
  /\ \A j \in Items : j # i => r.wire.got[j] = s.wire.got[j]
  /\ \A k \in Keys : k[1] # i =>
       /\ k \in DOMAIN r.blocks <=> k \in DOMAIN s.blocks
       /\ k \in DOMAIN s.blocks => r.blocks[k] = s.blocks[k]

\* A translator in order, while the answer is under way.
Sound(s) == Started(s) /\ Booked(s)

LEMMA AboutTwice ==
  ASSUME NEW s, NEW q, NEW r, NEW i, OnlyAbout(s, q, i), OnlyAbout(q, r, i)
  PROVE  OnlyAbout(s, r, i)
<1>1. Grown(s, r)
  BY DEF OnlyAbout, Grown
<1>2. SameThoughts(s, r)
  BY DEF OnlyAbout, SameThoughts
<1> QED
  BY <1>1, <1>2 DEF OnlyAbout

LEMMA AboutNothing ==
  ASSUME NEW s, Good(s), NEW i
  PROVE  OnlyAbout(s, s, i)
BY DEF OnlyAbout, Grown, SameThoughts, Good, Counted

LEMMA BookedAlike ==
  ASSUME NEW s, NEW r, Booked(s), Grown(s, r), r.mode = s.mode, r.next = s.next,
         DOMAIN r.blocks = DOMAIN s.blocks,
         \A k \in DOMAIN s.blocks : r.blocks[k].index = s.blocks[k].index,
         r.hasTool <=> s.hasTool, DOMAIN r.wire.got = Items,
         \A x \in r.wire.signed : x[1] = x[2] /\ x[2] \in Signed,
         r.mode = "off" => r.wire.signed = {}
  PROVE  Booked(r)
<1>1. ASSUME NEW b \in 1 .. r.next
      PROVE  /\ IF r.wire.blocks[b].kind = "thinking" THEN r.wire.blocks[b].item \in Reasonings
                ELSE \E k \in DOMAIN r.blocks :
                       r.blocks[k].index = b /\ r.wire.blocks[b].item = k[1]
             /\ r.wire.blocks[b].kind = "tool" => r.wire.blocks[b].named
  <2>1. /\ r.wire.blocks[b].kind = s.wire.blocks[b].kind
        /\ r.wire.blocks[b].item = s.wire.blocks[b].item
        /\ s.wire.blocks[b].named => r.wire.blocks[b].named
    BY DEF Grown
  <2>2. /\ IF s.wire.blocks[b].kind = "thinking" THEN s.wire.blocks[b].item \in Reasonings
           ELSE \E k \in DOMAIN s.blocks :
                  s.blocks[k].index = b /\ s.wire.blocks[b].item = k[1]
        /\ s.wire.blocks[b].kind = "tool" => s.wire.blocks[b].named
    BY DEF Booked
  <2> QED
    BY <2>1, <2>2
<1>2. /\ \A k, l \in DOMAIN r.blocks : k[1] = l[1] => k = l
      /\ \A k \in DOMAIN r.blocks : k[1] \in Calls => k = Key(k[1])
      /\ r.hasTool <=> \E k \in DOMAIN r.blocks : KindOf(k) = "tool"
  BY DEF Booked
<1> QED
  BY <1>1, <1>2 DEF Booked

LEMMA StoppedShown ==
  ASSUME NEW w, IsWire(w), w.blocks \in Seq(WireBlock), NEW stopping
  PROVE  /\ BlocksStop(w, stopping).got = w.got
         /\ BlocksStop(w, stopping).signed = w.signed
         /\ \A b \in 1 .. Len(w.blocks) :
              /\ BlocksStop(w, stopping).blocks[b].kind = w.blocks[b].kind
              /\ BlocksStop(w, stopping).blocks[b].item = w.blocks[b].item
              /\ w.blocks[b].named => BlocksStop(w, stopping).blocks[b].named
<1> DEFINE after == [b \in DOMAIN w.blocks |->
                       IF b \in stopping THEN Closed(w.blocks[b]) ELSE w.blocks[b]]
<1>1. /\ BlocksStop(w, stopping).got = w.got
      /\ BlocksStop(w, stopping).signed = w.signed
      /\ BlocksStop(w, stopping).blocks = after
  BY DEF IsWire, BlocksStop
<1>2. \A b \in 1 .. Len(w.blocks) : w.blocks[b] \in WireBlock
  OBVIOUS
<1>3. \A b \in 1 .. Len(w.blocks) :
        /\ after[b].kind = w.blocks[b].kind
        /\ after[b].item = w.blocks[b].item
        /\ after[b].named = w.blocks[b].named
  BY <1>2 DEF WireBlock, Closed
<1> HIDE DEF after
<1> QED
  BY <1>1, <1>3, Zenon

LEMMA EnsureStartAbout ==
  ASSUME NEW s, Good(s), Booked(s), NEW i
  PROVE  /\ Sound(EnsureStart(s)) /\ OnlyAbout(s, EnsureStart(s), i)
         /\ EnsureStart(s).blocks = s.blocks
         /\ EnsureStart(s).wire.got = s.wire.got
         /\ (EnsureStart(s).finished <=> s.finished)
<1> DEFINE r == EnsureStart(s)
<1>1. Started(r) /\ (r.finished <=> s.finished)
  BY EnsureStartGood
<1>2. /\ SameThoughts(s, r) /\ r.next = s.next /\ r.blocks = s.blocks
      /\ r.wire.blocks = s.wire.blocks /\ r.wire.got = s.wire.got
      /\ (r.hasTool <=> s.hasTool)
  BY DEF Good, IsTranslator, IsWire, EnsureStart, MessageStart, SameThoughts
<1>3. s.next \in Nat
  BY DEF Good, Counted
<1> HIDE DEF r
<1>4. Grown(s, r)
  BY <1>2, <1>3 DEF Grown
<1>5. Booked(r)
  BY <1>2, <1>4, BookedAlike DEF Booked, SameThoughts
<1> QED
  BY <1>1, <1>2, <1>4, <1>5 DEF OnlyAbout, Sound, r

\* A new block is the only one of its item, and a tool's has its name.
Opens(s, k, named) ==
  /\ k \notin DOMAIN s.blocks => \A x \in DOMAIN s.blocks : x[1] # k[1]
  /\ k[1] \in Calls => k = Key(k[1]) /\ (k \in DOMAIN s.blocks \/ named)

LEMMA EnsureBlockAbout ==
  ASSUME NEW s, Sound(s), s.thinking = Nowhere, NEW k \in Keys, NEW named \in BOOLEAN,
         Opens(s, k, named)
  PROVE  LET r == EnsureBlock(s, k, named)
         IN /\ Sound(r) /\ OnlyAbout(s, r, k[1]) /\ (r.finished <=> s.finished)
            /\ r.wire.got = s.wire.got
            /\ DOMAIN r.blocks = DOMAIN s.blocks \cup {k}
            /\ k \in DOMAIN s.blocks => r = s
            /\ k \notin DOMAIN s.blocks => ~r.blocks[k].emitted /\ ~r.blocks[k].stopped
<1> DEFINE r == EnsureBlock(s, k, named)
<1>1. Started(r) /\ (r.finished <=> s.finished) /\ r.mode = s.mode
  BY EnsureBlockGood DEF Sound, SameEnds
<1>2. FinishThinkingBeforeContent(s) = s
  BY DEF FinishThinkingBeforeContent
<1>3. CASE k \in DOMAIN s.blocks
  <2>1. r = s
    BY <1>2, <1>3 DEF EnsureBlock, Registered
  <2>2. OnlyAbout(s, r, k[1])
    BY <2>1, AboutNothing DEF Sound, Started
  <2> HIDE DEF r
  <2> QED
    BY <1>3, <2>1, <2>2 DEF r
<1>4. CASE k \notin DOMAIN s.blocks
  <2> DEFINE v == BlockStart(s.wire, s.next + 1, KindOf(k), k[1], named)
             new == [index |-> s.next + 1, emitted |-> FALSE, stopped |-> FALSE]
             blocks == [x \in DOMAIN s.blocks \cup {k} |->
                          IF x = k THEN new ELSE s.blocks[x]]
             shown == [kind |-> KindOf(k), item |-> k[1], named |-> named, open |-> TRUE]
  <2>1. r = [s EXCEPT !.wire = v, !.next = s.next + 1, !.blocks = blocks,
                      !.hasTool = s.hasTool \/ KindOf(k) = "tool"]
    BY <1>2, <1>4 DEF EnsureBlock, Registered
  <2>2. new.index = s.next + 1 /\ ~new.stopped /\ ~new.emitted
    OBVIOUS
  <2>3. /\ DOMAIN blocks = DOMAIN s.blocks \cup {k}
        /\ blocks[k] = new
        /\ \A x \in DOMAIN s.blocks : blocks[x] = s.blocks[x]
    BY <1>4
  <2>4. /\ s.wire.blocks \in Seq(WireBlock) /\ s.next = Len(s.wire.blocks) /\ s.next \in Nat
        /\ IsWire(s.wire) /\ IsTranslator(s)
    BY DEF Sound, Started, Good, Counted
  <2>5. /\ v.got = s.wire.got /\ v.signed = s.wire.signed
        /\ v.blocks = Append(s.wire.blocks, shown)
    BY <2>4 DEF IsWire, BlockStart
  <2>6. shown \in WireBlock
    BY KeyFields DEF WireBlock
  <2>7. shown.kind = KindOf(k) /\ shown.item = k[1] /\ shown.named = named
    OBVIOUS
  <2> HIDE DEF v, new, blocks, r, shown
  <2>8. /\ r.wire = v /\ r.next = s.next + 1 /\ r.blocks = blocks
        /\ (r.hasTool <=> (s.hasTool \/ KindOf(k) = "tool"))
        /\ r.thinking = s.thinking /\ r.reasonKey = s.reasonKey /\ r.signature = s.signature
        /\ r.completed = s.completed
    BY <2>1, <2>4 DEF IsTranslator
  <2>9. /\ \A b \in 1 .. s.next : v.blocks[b] = s.wire.blocks[b]
        /\ v.blocks[s.next + 1] = shown
    BY <2>4, <2>5, <2>6, Appended
  <2>10. Grown(s, r)
    <3>1. \A b \in 1 .. s.next : r.wire.blocks[b] = s.wire.blocks[b]
      BY <2>8, <2>9
    <3>2. s.next \in Nat /\ r.next \in Nat /\ s.next <= r.next
      BY <2>4, <2>8
    <3> QED
      BY <3>1, <3>2, Zenon DEF Grown
  <2>11. SameThoughts(s, r)
    BY <1>1, <2>5, <2>8 DEF SameThoughts
  <2>12. Booked(r)
    <3>1. /\ DOMAIN r.wire.got = Items
          /\ \A x \in r.wire.signed : x[1] = x[2] /\ x[2] \in Signed
          /\ r.mode = "off" => r.wire.signed = {}
      BY <1>1, <2>5, <2>8 DEF Sound, Booked
    <3>2. /\ \A x, l \in DOMAIN r.blocks : x[1] = l[1] => x = l
          /\ \A x \in DOMAIN r.blocks : x[1] \in Calls => x = Key(x[1])
      BY <1>4, <2>3, <2>8 DEF Sound, Booked, Opens
    <3>3. r.hasTool <=> \E x \in DOMAIN r.blocks : KindOf(x) = "tool"
      BY <1>4, <2>3, <2>8 DEF Sound, Booked
    <3>4. ASSUME NEW b \in 1 .. r.next
          PROVE  /\ IF r.wire.blocks[b].kind = "thinking"
                    THEN r.wire.blocks[b].item \in Reasonings
                    ELSE \E x \in DOMAIN r.blocks :
                           r.blocks[x].index = b /\ r.wire.blocks[b].item = x[1]
                 /\ r.wire.blocks[b].kind = "tool" => r.wire.blocks[b].named
      <4>1. CASE b = s.next + 1
        <5>1. KindOf(k) = "tool" => named
          BY <1>4 DEF Opens, KindOf
        <5>2. KindOf(k) # "thinking"
          BY DEF KindOf
        <5>3. r.wire.blocks[b] = shown /\ r.blocks[k].index = b /\ k \in DOMAIN r.blocks
          BY <2>2, <2>3, <2>8, <2>9, <4>1
        <5>4. r.wire.blocks[b].kind = "tool" => r.wire.blocks[b].named
          BY <2>7, <5>1, <5>3, Zenon
        <5> QED
          BY <2>7, <5>2, <5>3, <5>4
      <4>2. CASE b # s.next + 1
        <5>1. b \in 1 .. s.next /\ r.wire.blocks[b] = s.wire.blocks[b]
          BY <2>4, <2>8, <2>9, <4>2
        <5>2. /\ IF s.wire.blocks[b].kind = "thinking"
                 THEN s.wire.blocks[b].item \in Reasonings
                 ELSE \E x \in DOMAIN s.blocks :
                        s.blocks[x].index = b /\ s.wire.blocks[b].item = x[1]
              /\ s.wire.blocks[b].kind = "tool" => s.wire.blocks[b].named
          BY <5>1 DEF Sound, Booked
        <5>3. \A x \in DOMAIN s.blocks : x \in DOMAIN r.blocks /\ r.blocks[x] = s.blocks[x]
          BY <2>3, <2>8
        <5> QED
          BY <5>1, <5>2, <5>3
      <4> QED
        BY <4>1, <4>2
    <3> QED
      BY <3>1, <3>2, <3>3, <3>4 DEF Booked
  <2>13. OnlyAbout(s, r, k[1])
    BY <2>3, <2>5, <2>8, <2>10, <2>11 DEF OnlyAbout
  <2> QED
    BY <1>1, <1>4, <2>2, <2>3, <2>5, <2>8, <2>12, <2>13 DEF Sound, r
<1> QED
  BY <1>3, <1>4

LEMMA FeedAbout ==
  ASSUME NEW s, Sound(s), s.thinking = Nowhere, NEW k \in Keys, NEW named \in BOOLEAN,
         Opens(s, k, named), NEW n, n # 0, k \in DOMAIN s.blocks => ~s.blocks[k].stopped
  PROVE  LET r == Feed(s, k, n, named)
         IN /\ Sound(r) /\ OnlyAbout(s, r, k[1]) /\ (r.finished <=> s.finished)
            /\ r.wire.got[k[1]] = s.wire.got[k[1]] + n
            /\ DOMAIN r.blocks = DOMAIN s.blocks \cup {k}
            /\ r.blocks[k].emitted /\ ~r.blocks[k].stopped
<1> DEFINE q == EnsureBlock(s, k, named)
           f == Feed(s, k, n, named)
<1>1. /\ Sound(q) /\ OnlyAbout(s, q, k[1]) /\ (q.finished <=> s.finished)
      /\ q.wire.got = s.wire.got
      /\ DOMAIN q.blocks = DOMAIN s.blocks \cup {k}
      /\ ~q.blocks[k].stopped
  <2>1. /\ Sound(q) /\ OnlyAbout(s, q, k[1]) /\ (q.finished <=> s.finished)
        /\ q.wire.got = s.wire.got
        /\ DOMAIN q.blocks = DOMAIN s.blocks \cup {k}
        /\ k \in DOMAIN s.blocks => q = s
        /\ k \notin DOMAIN s.blocks => ~q.blocks[k].emitted /\ ~q.blocks[k].stopped
    BY EnsureBlockAbout
  <2> HIDE DEF q
  <2> QED
    BY <2>1, Zenon
<1>2. Started(f) /\ SameEnds(s, f)
  BY FeedGood DEF Sound
<1> DEFINE v == BlockDelta(q.wire, q.blocks[k].index, KindOf(k), k[1], n)
           fed == [q.blocks[k] EXCEPT !.emitted = TRUE]
           blocks == [q.blocks EXCEPT ![k] = fed]
           r == [q EXCEPT !.wire = v, !.blocks = blocks]
<1>3. f = r
  BY <1>1, Zenon DEF Feed, Marked
<1> HIDE DEF q, f
<1>4. q.blocks[k] \in Block /\ IsWire(q.wire) /\ IsTranslator(q) /\ q.next \in Nat
  BY <1>1 DEF Sound, Started, Good, Shown, Counted
<1>5. fed.emitted /\ ~fed.stopped /\ fed.index = q.blocks[k].index
  BY <1>1, <1>4 DEF Block
<1>6. /\ v.blocks = q.wire.blocks /\ v.signed = q.wire.signed
      /\ v.got = [q.wire.got EXCEPT ![k[1]] = @ + n]
  BY <1>4 DEF IsWire, BlockDelta
<1>7. DOMAIN v.got = Items /\ v.got[k[1]] = s.wire.got[k[1]] + n
      /\ \A j \in Items : j # k[1] => v.got[j] = q.wire.got[j]
  BY <1>1, <1>6, KeyFields DEF Sound, Booked
<1> HIDE DEF v, fed
<1>8. /\ DOMAIN blocks = DOMAIN q.blocks
      /\ \A x \in DOMAIN q.blocks : blocks[x] = IF x = k THEN fed ELSE q.blocks[x]
  OBVIOUS
<1> HIDE DEF blocks
<1>9. /\ r.wire = v /\ r.next = q.next /\ r.blocks = blocks /\ (r.hasTool <=> q.hasTool)
      /\ SameThoughts(q, r)
  BY <1>4, <1>6 DEF IsTranslator, SameThoughts
<1> HIDE DEF r
<1>10. Grown(q, r)
  BY <1>4, <1>6, <1>9 DEF Grown
<1>11. Booked(r)
  <2>1. /\ \A x \in DOMAIN q.blocks : r.blocks[x].index = q.blocks[x].index
        /\ DOMAIN r.blocks = DOMAIN q.blocks
    BY <1>5, <1>8, <1>9
  <2>2. r.mode = q.mode /\ r.wire.signed = q.wire.signed
    BY <1>9 DEF SameThoughts
  <2>3. Booked(q)
    BY <1>1 DEF Sound
  <2>4. /\ \A x \in r.wire.signed : x[1] = x[2] /\ x[2] \in Signed
        /\ r.mode = "off" => r.wire.signed = {}
    BY <2>2, <2>3 DEF Booked
  <2>5. DOMAIN r.wire.got = Items
    BY <1>7, <1>9
  <2> QED
    BY <1>9, <1>10, <2>1, <2>2, <2>3, <2>4, <2>5, BookedAlike
<1>12. OnlyAbout(q, r, k[1])
  BY <1>7, <1>8, <1>9, <1>10 DEF OnlyAbout
<1>13. OnlyAbout(s, r, k[1])
  BY <1>1, <1>12, AboutTwice
<1> QED
  BY <1>1, <1>2, <1>3, <1>5, <1>7, <1>8, <1>9, <1>11, <1>13 DEF Sound, SameEnds, f

LEMMA StopAbout ==
  ASSUME NEW s, Sound(s), NEW k \in Keys
  PROVE  LET r == StopBlock(s, k)
         IN /\ Sound(r) /\ OnlyAbout(s, r, k[1]) /\ (r.finished <=> s.finished)
            /\ r.wire.got = s.wire.got
            /\ DOMAIN r.blocks = DOMAIN s.blocks
            /\ k \in DOMAIN s.blocks => (r.blocks[k].emitted <=> s.blocks[k].emitted)
<1> DEFINE f == StopBlock(s, k)
<1>1. Started(f) /\ SameEnds(s, f)
  BY StopBlockGood DEF Sound, Started, SameEnds
<1>2. CASE f = s
  <2> HIDE DEF f
  <2>1. OnlyAbout(s, f, k[1])
    BY <1>2, AboutNothing DEF Sound, Started
  <2> QED
    BY <1>2, <2>1 DEF f
<1>3. CASE f # s
  <2> DEFINE v == BlocksStop(s.wire, {s.blocks[k].index})
             stopped == Stopped(s.blocks[k])
             blocks == [s.blocks EXCEPT ![k] = stopped]
             r == [s EXCEPT !.wire = v, !.blocks = blocks]
  <2>1. f = r /\ k \in DOMAIN s.blocks
    BY <1>3, Zenon DEF StopBlock, Registered, Marked
  <2>2. s.blocks[k] \in Block /\ IsWire(s.wire) /\ IsTranslator(s) /\ s.next \in Nat
        /\ s.wire.blocks \in Seq(WireBlock) /\ s.next = Len(s.wire.blocks)
    BY <2>1 DEF Sound, Started, Good, Shown, Counted
  <2>3. stopped.index = s.blocks[k].index /\ (stopped.emitted <=> s.blocks[k].emitted)
    BY <2>2 DEF Stopped, Block
  <2>4. /\ v.got = s.wire.got /\ v.signed = s.wire.signed
        /\ \A b \in 1 .. s.next :
             /\ v.blocks[b].kind = s.wire.blocks[b].kind
             /\ v.blocks[b].item = s.wire.blocks[b].item
             /\ s.wire.blocks[b].named => v.blocks[b].named
    BY <2>2, StoppedShown
  <2> HIDE DEF v, stopped, f
  <2>5. /\ DOMAIN blocks = DOMAIN s.blocks
        /\ \A x \in DOMAIN s.blocks : blocks[x] = IF x = k THEN stopped ELSE s.blocks[x]
    OBVIOUS
  <2> HIDE DEF blocks
  <2>6. /\ r.wire = v /\ r.next = s.next /\ r.blocks = blocks /\ (r.hasTool <=> s.hasTool)
        /\ SameThoughts(s, r)
    BY <2>2, <2>4 DEF IsTranslator, SameThoughts
  <2> HIDE DEF r
  <2>7. Grown(s, r)
    BY <2>2, <2>4, <2>6 DEF Grown
  <2>8. Booked(r)
    <3>1. /\ \A x \in DOMAIN s.blocks : r.blocks[x].index = s.blocks[x].index
          /\ DOMAIN r.blocks = DOMAIN s.blocks
      BY <2>3, <2>5, <2>6
    <3>2. r.mode = s.mode /\ r.wire.signed = s.wire.signed
      BY <2>6 DEF SameThoughts
    <3>3. Booked(s)
      BY DEF Sound
    <3>4. /\ \A x \in r.wire.signed : x[1] = x[2] /\ x[2] \in Signed
          /\ r.mode = "off" => r.wire.signed = {}
          /\ DOMAIN r.wire.got = Items
      BY <2>4, <2>6, <3>2, <3>3 DEF Booked
    <3> QED
      BY <2>6, <2>7, <3>1, <3>2, <3>3, <3>4, BookedAlike
  <2>9. OnlyAbout(s, r, k[1])
    BY <2>4, <2>5, <2>6, <2>7 DEF OnlyAbout
  <2> QED
    BY <1>1, <2>1, <2>3, <2>4, <2>5, <2>6, <2>8, <2>9 DEF Sound, SameEnds, f
<1> QED
  BY <1>2, <1>3

-----------------------------------------------------------------------------
(***************************************************************************)
(* What an orderly upstream has sent.                                      *)
(***************************************************************************)
Zero(t) ==
  /\ t.parts = 0 /\ t.opened = 0 /\ ~t.added /\ ~t.whole
  /\ ~t.closed /\ ~t.done /\ ~t.signed

LEMMA ZeroSending ==
  ASSUME NEW i, NEW t \in Sending(i), Zero(t)
  PROVE  t = Untouched
<1>1. t = [parts |-> t.parts, opened |-> t.opened, added |-> t.added, whole |-> t.whole,
           closed |-> t.closed, done |-> t.done, signed |-> t.signed]
  BY DEF Sending
<1>2. /\ t.added \in BOOLEAN /\ t.whole \in BOOLEAN /\ t.closed \in BOOLEAN
      /\ t.done \in BOOLEAN /\ t.signed \in BOOLEAN
  BY DEF Sending
<1>3. /\ t.added = FALSE /\ t.whole = FALSE /\ t.closed = FALSE /\ t.done = FALSE
      /\ t.signed = FALSE
  BY <1>2 DEF Zero
<1>4. t.parts = 0 /\ t.opened = 0
  BY DEF Zero
<1> QED
  BY <1>1, <1>3, <1>4 DEF Untouched

LEMMA SentMore ==
  ASSUME orderly, UpstreamTyped, NEW ev \in Events, ev.item \in Items, Sends(ev)
  PROVE  LET i == ev.item
         IN /\ sent'[i].opened = IF ev.type \in PartBegins THEN sent[i].parts + 1
                                 ELSE sent[i].opened
            /\ (sent'[i].done <=> sent[i].done \/ ev.type = "item.done")
            /\ (sent'[i].signed <=> sent[i].signed \/ ev.sig)
            /\ sent'[i] \in Sending(i)
            /\ sent[i] # Untouched => sent'[i] # Untouched
            /\ sent'[i].parts > 0 \/ sent'[i].opened > 0 \/ sent'[i].added \/ sent'[i].closed
                 => sent'[i] # Untouched
<1> DEFINE i == ev.item
<1>1. /\ sent' = [sent EXCEPT ![i] = NowSent(ev)] /\ MaySendItem(ev)
      /\ DOMAIN sent = Items /\ sent[i] \in Sending(i)
  BY DEF Sends, MaySend, UpstreamTyped
<1>2. sent'[i] = NowSent(ev)
  BY <1>1
<1>3. /\ NowSent(ev).parts = IF ev.type \in Ends THEN Full[i] ELSE sent[i].parts + ev.n
      /\ (NowSent(ev).added <=> sent[i].added \/ (ev.type = "item.added" /\ i \notin Messages))
      /\ (NowSent(ev).whole <=> sent[i].whole \/ (ev.type \in Ends /\ sent[i].parts = 0))
      /\ (NowSent(ev).closed <=> sent[i].closed \/ ev.type \in Ends)
  BY DEF NowSent
<1>4. /\ NowSent(ev).opened = IF ev.type \in PartBegins THEN sent[i].parts + 1
                              ELSE sent[i].opened
      /\ (NowSent(ev).done <=> sent[i].done \/ ev.type = "item.done")
      /\ (NowSent(ev).signed <=> sent[i].signed \/ ev.sig)
  <2>1. NowSent(ev).opened = IF ev.type \in PartBegins THEN sent[i].parts + 1
                             ELSE sent[i].opened
    BY DEF NowSent
  <2>2. NowSent(ev).done <=> sent[i].done \/ ev.type = "item.done"
    BY DEF NowSent
  <2>3. NowSent(ev).signed <=> sent[i].signed \/ ev.sig
    BY DEF NowSent
  <2> QED
    BY <2>1, <2>2, <2>3
<1>5. NowSent(ev) \in Sending(i)
  BY <1>1, NowSentTyped
<1>6. NowSent(ev) = Untouched => Zero(NowSent(ev))
  BY DEF Untouched, Zero
<1>7. Zero(sent[i]) => sent[i] = Untouched
  BY <1>1, ZeroSending
<1>8. ev.type \in Ends \/ ev.n \in Nat
  BY EventAmounts, BoundsAssumption
<1>9. sent[i] # Untouched => NowSent(ev) # Untouched
  <2>1. sent[i].parts \in Nat /\ sent[i].opened \in Nat
    BY <1>1, BoundsAssumption DEF Sending
  <2> QED
    BY <1>3, <1>6, <1>7, <1>8, <1>4, <2>1 DEF Zero
<1> QED
  BY <1>2, <1>3, <1>4, <1>5, <1>6, <1>9 DEF Zero

LEMMA NotUntouched ==
  ASSUME UpstreamTyped, NEW i \in Items
  PROVE  /\ sent[i].parts > 0 \/ sent[i].opened > 0 \/ sent[i].added \/ sent[i].closed
              \/ sent[i].done \/ sent[i].signed => sent[i] # Untouched
         /\ sent[i] = Untouched => sent[i].parts = 0 /\ sent[i].opened = 0
BY DEF Untouched

LEMMA SentElsewhere ==
  ASSUME orderly, UpstreamTyped, NEW ev \in Events, Sends(ev), NEW j \in Items, j # ev.item
  PROVE  sent'[j] = sent[j]
<1>1. CASE ev.item \in Items
  BY <1>1, SentOfItem
<1>2. CASE ev.item \notin Items
  BY <1>2 DEF Sends
<1> QED
  BY <1>1, <1>2

LEMMA OneReasoning ==
  ASSUME orderly, UpstreamTyped, NEW ev \in Events, ev.item \in Items, Sends(ev)
  PROVE  OpenReasoning \subseteq {ev.item} /\ OpenReasoning' \subseteq {ev.item}
<1>1. OpenReasoning \subseteq {ev.item}
  BY SentOfItem DEF MaySendItem
<1>2. ASSUME NEW j \in Reasonings, j # ev.item, j \in OpenReasoning' PROVE FALSE
  <2>1. sent'[j] = sent[j]
    BY <1>2, SentElsewhere DEF Items
  <2>2. j \in OpenReasoning
    BY <1>2, <2>1 DEF OpenReasoning
  <2> QED
    BY <1>1, <1>2, <2>2
<1> QED
  BY <1>1, <1>2 DEF OpenReasoning

LEMMA UpstreamKnowsNext ==
  ASSUME orderly, UpstreamTyped, UpstreamKnows, NEW ev \in Events, Sends(ev)
  PROVE  UpstreamKnows'
<1>1. CASE ev.item \notin Items
  BY <1>1 DEF Sends, UpstreamKnows, OpenReasoning
<1>2. CASE ev.item \in Items
  <2> DEFINE i == ev.item
  <2>1. /\ MaySendItem(ev) /\ Full[i] \in Nat \ {0}
        /\ sent'[i].parts = IF ev.type \in Ends THEN Full[i] ELSE sent[i].parts + ev.n
        /\ (sent'[i].closed <=> sent[i].closed \/ ev.type \in Ends)
        /\ (sent'[i].done <=> sent[i].done \/ ev.type = "item.done")
    BY <1>2, SentOfItem, SentMore
  <2>2. sent'[i].closed => sent'[i].parts = Full[i]
    <3>1. CASE ev.type \in Ends
      BY <2>1, <3>1
    <3>2. CASE ev.type \notin Ends /\ sent[i].closed
      <4>1. sent[i].parts = Full[i]
        BY <1>2, <3>2 DEF UpstreamKnows
      <4>2. ev.type \notin Deltas \cup PartBegins /\ ev.type # "item.added"
        BY <2>1, <3>2, <4>1 DEF MaySendItem, MaySendDelta
      <4>3. ev.n = 0
        BY <1>2, <3>2, <4>2, EventAmounts
      <4> QED
        BY <2>1, <3>2, <4>1, <4>3
    <3> QED
      BY <2>1, <3>1, <3>2
  <2>3. i \in Reasonings => (sent'[i].closed <=> sent'[i].done)
    <3>1. i \in Reasonings /\ ev.type \in Ends => ev.type = "item.done"
      BY EventItems, ItemsAssumption DEF Ends
    <3>2. i \in Reasonings => (sent[i].closed <=> sent[i].done)
      BY DEF UpstreamKnows
    <3>3. ev.type = "item.done" => ev.type \in Ends
      BY DEF Ends
    <3> QED
      BY <2>1, <3>1, <3>2, <3>3
  <2>4. \A j \in Items : j # i => sent'[j] = sent[j]
    BY SentElsewhere
  <2>5. \A j, k \in OpenReasoning' : j = k
    BY <1>2, OneReasoning
  <2>6. \A j \in Items : sent'[j].closed => sent'[j].parts = Full[j]
    BY <2>2, <2>4 DEF UpstreamKnows
  <2>7. \A j \in Reasonings : sent'[j].closed <=> sent'[j].done
    BY <2>3, <2>4 DEF UpstreamKnows, Items
  <2> QED
    BY <2>5, <2>6, <2>7 DEF UpstreamKnows
<1> QED
  BY <1>1, <1>2

-----------------------------------------------------------------------------
(***************************************************************************)
(* Text and calls while the answer is read.                                *)
(***************************************************************************)
\* The client has so many fragments of item i, and its block is stopped only
\* if the item is closed.
Held(s, i, parts, closed) ==
  /\ <<i, TRUE>> \notin DOMAIN s.blocks
  /\ s.wire.got[i] = parts
  /\ Emitted(s, Key(i)) <=> parts > 0
  /\ Registered(s, Key(i)) => (s.blocks[Key(i)].stopped => closed)

LEMMA KeysOfItem ==
  ASSUME NEW i, NEW x \in Keys, x[1] = i
  PROVE  x = <<i, TRUE>> \/ x = Key(i)
<1>1. PICK j \in Messages \cup Calls : \E b \in BOOLEAN : x = <<j, b>>
  BY DEF Keys
<1>2. j = i
  BY <1>1
<1>3. x = <<j, TRUE>> \/ x = <<j, FALSE>>
  BY <1>1
<1> QED
  BY <1>2, <1>3, Zenon DEF Key

LEMMA KeyOf ==
  ASSUME NEW i \in Messages \cup Calls
  PROVE  Key(i) \in Keys /\ Key(i)[1] = i /\ Key(i) # <<i, TRUE>> /\ i \in Items
BY KeysOf DEF Key

LEMMA HeldOpens ==
  ASSUME NEW s, Sound(s), NEW i \in Messages \cup Calls, NEW p, NEW c, Held(s, i, p, c),
         NEW named, i \in Calls => named \/ Registered(s, Key(i))
  PROVE  Opens(s, Key(i), named)
<1>1. ASSUME NEW x \in DOMAIN s.blocks, x[1] = i PROVE x = Key(i)
  <2>1. x \in Keys
    BY DEF Sound, Started, Good, Shown
  <2> QED
    BY <1>1, <2>1, KeysOfItem DEF Held
<1> QED
  BY <1>1, KeyOf DEF Opens, Registered

LEMMA HeldEnsure ==
  ASSUME NEW s, Sound(s), s.thinking = Nowhere, NEW i \in Messages \cup Calls, NEW p, NEW c,
         Held(s, i, p, c), NEW named \in BOOLEAN, i \in Calls => named \/ Registered(s, Key(i)),
         p \in Nat
  PROVE  LET r == EnsureBlock(s, Key(i), named)
         IN /\ Sound(r) /\ r.thinking = Nowhere /\ OnlyAbout(s, r, i)
            /\ (r.finished <=> s.finished)
            /\ Held(r, i, p, c) /\ Registered(r, Key(i))
<1> DEFINE k == Key(i)
           r == EnsureBlock(s, k, named)
<1>1. k \in Keys /\ k[1] = i /\ k # <<i, TRUE>>
  BY KeyOf
<1>2. Opens(s, k, named)
  BY HeldOpens
<1> HIDE DEF k
<1>3. /\ Sound(r) /\ OnlyAbout(s, r, k[1]) /\ (r.finished <=> s.finished)
      /\ r.wire.got = s.wire.got
      /\ DOMAIN r.blocks = DOMAIN s.blocks \cup {k}
      /\ k \in DOMAIN s.blocks => r = s
      /\ k \notin DOMAIN s.blocks => ~r.blocks[k].emitted /\ ~r.blocks[k].stopped
  BY <1>1, <1>2, EnsureBlockAbout
<1> HIDE DEF r
<1>4. /\ <<i, TRUE>> \notin DOMAIN s.blocks /\ s.wire.got[i] = p
      /\ (k \in DOMAIN s.blocks /\ s.blocks[k].emitted) <=> p > 0
      /\ k \in DOMAIN s.blocks => (s.blocks[k].stopped => c)
  BY DEF Held, Emitted, Registered, k
<1>5. r.thinking = Nowhere
  BY <1>3 DEF OnlyAbout, SameThoughts
<1>6. /\ <<i, TRUE>> \notin DOMAIN r.blocks /\ r.wire.got[i] = p
      /\ k \in DOMAIN r.blocks
      /\ r.blocks[k].emitted <=> p > 0
      /\ r.blocks[k].stopped => c
  <2>1. CASE k \in DOMAIN s.blocks
    BY <1>3, <1>4, <2>1
  <2>2. CASE k \notin DOMAIN s.blocks
    BY <1>1, <1>3, <1>4, <2>2
  <2> QED
    BY <2>1, <2>2
<1> QED
  BY <1>1, <1>3, <1>5, <1>6 DEF Held, Emitted, Registered, k, r

LEMMA HeldFeed ==
  ASSUME NEW s, Sound(s), s.thinking = Nowhere, NEW i \in Messages \cup Calls, NEW p \in Nat,
         Held(s, i, p, FALSE), NEW named \in BOOLEAN,
         i \in Calls => named \/ Registered(s, Key(i)), NEW n \in Nat \ {0}
  PROVE  LET r == Feed(s, Key(i), n, named)
         IN /\ Sound(r) /\ r.thinking = Nowhere /\ OnlyAbout(s, r, i)
            /\ (r.finished <=> s.finished)
            /\ Held(r, i, p + n, FALSE) /\ Registered(r, Key(i))
<1> DEFINE k == Key(i)
           r == Feed(s, k, n, named)
<1>1. k \in Keys /\ k[1] = i /\ k # <<i, TRUE>>
  BY KeyOf
<1>2. Opens(s, k, named)
  BY HeldOpens
<1>3. /\ <<i, TRUE>> \notin DOMAIN s.blocks /\ s.wire.got[i] = p
      /\ k \in DOMAIN s.blocks => ~s.blocks[k].stopped
  BY DEF Held, Registered
<1> HIDE DEF k
<1>4. /\ Sound(r) /\ OnlyAbout(s, r, k[1]) /\ (r.finished <=> s.finished)
      /\ r.wire.got[k[1]] = s.wire.got[k[1]] + n
      /\ DOMAIN r.blocks = DOMAIN s.blocks \cup {k}
      /\ r.blocks[k].emitted /\ ~r.blocks[k].stopped
  BY <1>1, <1>2, <1>3, FeedAbout
<1> HIDE DEF r
<1>5. r.thinking = Nowhere
  BY <1>4 DEF OnlyAbout, SameThoughts
<1>6. /\ <<i, TRUE>> \notin DOMAIN r.blocks /\ r.wire.got[i] = p + n /\ p + n > 0
      /\ k \in DOMAIN r.blocks
  <2>1. <<i, TRUE>> \notin DOMAIN r.blocks /\ k \in DOMAIN r.blocks
    BY <1>1, <1>3, <1>4
  <2>2. r.wire.got[i] = p + n
    BY <1>1, <1>3, <1>4
  <2>3. p + n > 0
    OBVIOUS
  <2> QED
    BY <2>1, <2>2, <2>3
<1>7. k = Key(i)
  BY DEF k
<1>8. Held(r, i, p + n, FALSE) /\ Registered(r, Key(i))
  BY <1>4, <1>6, <1>7 DEF Held, Emitted, Registered
<1> QED
  BY <1>1, <1>4, <1>5, <1>7, <1>8 DEF r

LEMMA HeldStop ==
  ASSUME NEW s, Sound(s), NEW i \in Messages \cup Calls, NEW p, NEW c, Held(s, i, p, c)
  PROVE  LET r == StopBlock(s, Key(i))
         IN /\ Sound(r) /\ OnlyAbout(s, r, i) /\ (r.finished <=> s.finished)
            /\ Held(r, i, p, TRUE) /\ (Registered(s, Key(i)) => Registered(r, Key(i)))
<1> DEFINE k == Key(i)
           r == StopBlock(s, k)
<1>1. k \in Keys /\ k[1] = i
  BY KeyOf
<1>2. /\ <<i, TRUE>> \notin DOMAIN s.blocks /\ s.wire.got[i] = p
      /\ (k \in DOMAIN s.blocks /\ s.blocks[k].emitted) <=> p > 0
  BY DEF Held, Emitted, Registered
<1> HIDE DEF k
<1>3. /\ Sound(r) /\ OnlyAbout(s, r, k[1]) /\ (r.finished <=> s.finished)
      /\ r.wire.got = s.wire.got
      /\ DOMAIN r.blocks = DOMAIN s.blocks
      /\ k \in DOMAIN s.blocks => (r.blocks[k].emitted <=> s.blocks[k].emitted)
  BY <1>1, StopAbout
<1> HIDE DEF r
<1>4. /\ <<i, TRUE>> \notin DOMAIN r.blocks /\ r.wire.got[i] = p
      /\ (k \in DOMAIN r.blocks /\ r.blocks[k].emitted) <=> p > 0
  BY <1>2, <1>3
<1> QED
  BY <1>1, <1>3, <1>4 DEF Held, Emitted, Registered, k, r

\* Events about text and calls come when no reasoning is in hand.
LEMMA ContentQuiet ==
  ASSUME orderly, UpstreamTyped, NEW ev \in Events, ev.item \in Messages \cup Calls, Sends(ev),
         Good(tr), InHand
  PROVE  tr.thinking = Nowhere /\ OpenReasoning = {} /\ OpenReasoning' = {}
<1>1. ev.item \notin Reasonings /\ ev.item \in Items
  BY ItemsAssumption DEF Items
<1>2. OpenReasoning = {} /\ OpenReasoning' = {}
  BY <1>1, OneReasoning DEF OpenReasoning
<1> QED
  BY <1>2 DEF InHand, Good, Thinks, Nowhere

LEMMA ContentSent ==
  ASSUME orderly, UpstreamTyped, UpstreamKnows, NEW ev \in Events,
         ev.item \in Messages \cup Calls, Sends(ev)
  PROVE  LET i == ev.item
         IN /\ sent[i].parts \in Nat /\ Full[i] \in Nat \ {0}
            /\ ev.type \in Deltas => ev.n = 1 /\ ~sent[i].closed /\ sent'[i].parts = sent[i].parts + 1
            /\ ev.type = "content_part.added" => sent'[i].parts = sent[i].parts
            /\ ev.type = "item.added" /\ i \in Messages =>
                 sent'[i].parts = sent[i].parts /\ (sent'[i].added <=> sent[i].added)
            /\ ev.type = "item.added" /\ i \in Calls =>
                 /\ ev.n \in {0, Full[i]} /\ sent[i].parts = 0 /\ ~sent[i].closed
                 /\ sent'[i].parts = ev.n /\ sent'[i].added
            /\ ev.type \in Ends =>
                 /\ ev.n = Full[i] /\ sent'[i].parts = Full[i] /\ sent'[i].closed
                 /\ sent[i].parts > 0 => sent[i].parts = Full[i]
                 /\ sent[i].parts = 0 => ~sent[i].closed
            /\ ev.type \notin Ends => (sent'[i].closed <=> sent[i].closed)
            /\ ev.type \in {"arguments.delta", "arguments.done"} => sent[i].added
            /\ ev.type # "item.added" \/ i \in Calls => sent'[i] # Untouched
            /\ sent[i] # Untouched => sent'[i] # Untouched
<1> DEFINE i == ev.item
<1>1. i \in Items /\ (i \in Messages => i \notin Calls) /\ i \notin Reasonings
  BY ItemsAssumption DEF Items
<1>2. /\ MaySendItem(ev) /\ Full[i] \in Nat \ {0} /\ sent[i] \in Sending(i)
      /\ sent'[i].parts = IF ev.type \in Ends THEN Full[i] ELSE sent[i].parts + ev.n
      /\ (sent'[i].closed <=> sent[i].closed \/ ev.type \in Ends)
      /\ (sent'[i].added <=> sent[i].added \/ (ev.type = "item.added" /\ i \notin Messages))
      /\ sent'[i].opened = IF ev.type \in PartBegins THEN sent[i].parts + 1
                           ELSE sent[i].opened
      /\ sent'[i] \in Sending(i)
      /\ sent[i] # Untouched => sent'[i] # Untouched
      /\ sent'[i].parts > 0 \/ sent'[i].opened > 0 \/ sent'[i].added \/ sent'[i].closed
           => sent'[i] # Untouched
  BY <1>1, SentOfItem, SentMore
<1>3. sent[i].parts \in 0 .. Full[i]
  BY <1>2 DEF Sending
<1>4. sent[i].closed => sent[i].parts = Full[i]
  BY <1>1 DEF UpstreamKnows
<1>5. ev.type \in Deltas =>
        ev.n = 1 /\ ~sent[i].closed /\ sent'[i].parts = sent[i].parts + 1 /\ ev.type \notin Ends
  <2> SUFFICES ASSUME ev.type \in Deltas
               PROVE  ev.n = 1 /\ ~sent[i].closed /\ ev.type \notin Ends
    BY <1>2
  <2>1. ev.type \notin PartBegins \cup {"reasoning_part.done", "item.added"}
        /\ ev.type \notin Ends
    BY DEF Deltas, PartBegins, Ends
  <2>2. ev.n = 1
    BY <1>1, <2>1, EventAmounts
  <2> QED
    BY <1>2, <2>1, <2>2 DEF MaySendItem, MaySendDelta
<1>6. ev.type = "content_part.added" =>
        sent'[i].parts = sent[i].parts /\ ev.type \in PartBegins
  <2> SUFFICES ASSUME ev.type = "content_part.added"
               PROVE  ev.n = 0 /\ ev.type \notin Ends /\ ev.type \in PartBegins
    BY <1>2, <1>3
  <2> QED
    BY <1>1, EventAmounts DEF Deltas, PartBegins, Ends
<1>7. ev.type = "item.added" /\ i \in Messages =>
        sent'[i].parts = sent[i].parts /\ (sent'[i].added <=> sent[i].added)
  <2> SUFFICES ASSUME ev.type = "item.added", i \in Messages
               PROVE  ev.n = 0 /\ ev.type \notin Ends
    BY <1>2, <1>3
  <2> QED
    BY MessageAddedEmpty DEF Ends
<1>8. ev.type = "item.added" /\ i \in Calls =>
        /\ ev.n \in {0, Full[i]} /\ sent[i].parts = 0 /\ ~sent[i].closed
        /\ sent'[i].parts = ev.n /\ sent'[i].added
  <2> SUFFICES ASSUME ev.type = "item.added", i \in Calls
               PROVE  /\ ev.n \in {0, Full[i]} /\ sent[i].parts = 0 /\ ~sent[i].closed
                      /\ sent'[i].parts = ev.n /\ sent'[i].added
    OBVIOUS
  <2>1. ev.type \notin Ends /\ ev.type \notin Deltas \cup PartBegins \cup {"reasoning_part.done"}
    BY DEF Deltas, PartBegins, Ends
  <2>2. ev.n \in {0, Full[i]}
    BY <1>1, <2>1, EventAmounts
  <2>3. sent[i].parts = 0
    BY <1>2 DEF MaySendItem
  <2> QED
    BY <1>1, <1>2, <1>4, <2>1, <2>2, <2>3
<1>9. ev.type \in Ends =>
        /\ ev.n = Full[i] /\ sent'[i].parts = Full[i] /\ sent'[i].closed
        /\ sent[i].parts > 0 => sent[i].parts = Full[i]
        /\ sent[i].parts = 0 => ~sent[i].closed
  BY <1>2, <1>3, <1>4 DEF MaySendItem, MaySendWhole
<1>10. ev.type \in {"arguments.delta", "arguments.done"} => sent[i].added
  BY <1>2 DEF MaySendItem
<1>11. ev.type \notin Ends => (sent'[i].closed <=> sent[i].closed)
  BY <1>2
<1>12. ev.type # "item.added" \/ i \in Calls => sent'[i] # Untouched
  <2>1. \/ ev.type \in Deltas \/ ev.type \in PartBegins \cup {"reasoning_part.done"}
        \/ ev.type = "item.added" \/ ev.type \in Ends
    BY <1>1, EventAmounts
  <2>2. ev.type # "reasoning_part.done"
    BY <1>1, EventItems
  <2>3. ev.type \in PartBegins => sent'[i].opened > 0
    BY <1>2, <1>3
  <2>4. ev.type \in Deltas => sent'[i].parts > 0
    BY <1>3, <1>5
  <2> QED
    BY <1>2, <1>8, <1>9, <2>1, <2>2, <2>3, <2>4
<1>13. sent[i].parts \in Nat
  BY <1>2, <1>3
<1> QED
  BY <1>2, <1>5, <1>6, <1>7, <1>8, <1>9, <1>10, <1>11, <1>12, <1>13

\* What an event about text or a call makes of the translator.
ContentStep(i) ==
  /\ Sound(tr') /\ OnlyAbout(tr, tr', i) /\ (tr'.finished <=> tr.finished)
  /\ ContentKnown(i)'

LEMMA ContentStepOf ==
  ASSUME NEW i \in Messages \cup Calls, Sound(tr'), OnlyAbout(tr, tr', i), tr'.finished <=> tr.finished,
         NEW p, NEW c, Held(tr', i, p, c), p = sent'[i].parts, c => sent'[i].closed,
         Registered(tr', Key(i)), sent'[i] # Untouched
  PROVE  ContentStep(i)
<1>1. ContentKnown(i)'
  BY DEF Held, ContentKnown, Emitted, Registered
<1> QED
  BY <1>1 DEF ContentStep

\* The translator as it is when an event about text or a call is read.
LEMMA ContentBegin ==
  ASSUME UpstreamTyped, Good(tr), Booked(tr), NEW i \in Messages \cup Calls, ContentKnown(i),
         tr.thinking = Nowhere
  PROVE  LET s == EnsureStart(tr)
         IN /\ Sound(s) /\ OnlyAbout(tr, s, i) /\ s.thinking = Nowhere
            /\ (s.finished <=> tr.finished)
            /\ Held(tr, i, sent[i].parts, sent[i].closed)
            /\ Held(s, i, sent[i].parts, sent[i].closed)
            /\ s.blocks = tr.blocks
            /\ (Registered(tr, Key(i)) => s = tr)
<1> DEFINE s == EnsureStart(tr)
<1>1. /\ Sound(s) /\ OnlyAbout(tr, s, i) /\ s.blocks = tr.blocks
      /\ s.wire.got = tr.wire.got /\ (s.finished <=> tr.finished)
  BY EnsureStartAbout
<1>2. Registered(tr, Key(i)) => s = tr
  <2>1. Registered(tr, Key(i)) => tr.started
    BY DEF Good, Counted, Shown, Registered
  <2> QED
    BY <2>1 DEF EnsureStart
<1> HIDE DEF s
<1>3. s.thinking = Nowhere
  BY <1>1 DEF OnlyAbout, SameThoughts
<1>4. Held(tr, i, sent[i].parts, sent[i].closed)
  BY DEF ContentKnown, Held
<1>5. Held(s, i, sent[i].parts, sent[i].closed)
  BY <1>1, <1>4 DEF Held, Emitted, Registered
<1> QED
  BY <1>1, <1>2, <1>3, <1>4, <1>5 DEF s

\* The event of a message whose content was not sent before changes nothing.
LEMMA MessageAddedStep ==
  ASSUME orderly, UpstreamTyped, UpstreamKnows, Good(tr), Booked(tr), InReading,
         NEW ev \in Events, Sends(ev), MessageAdded(ev)
  PROVE  ContentStep(ev.item)
<1> DEFINE i == ev.item
           s == EnsureStart(tr)
<1>1. /\ i \in Messages \cup Calls /\ i \in Messages /\ ev.type = "item.added" /\ tr' = s
      /\ ContentKnown(i)
  BY DEF MessageAdded, Becomes, InReading
<1>2. tr.thinking = Nowhere
  BY <1>1, ContentQuiet DEF InReading
<1>3. /\ sent'[i].parts = sent[i].parts /\ (sent'[i].added <=> sent[i].added)
      /\ sent'[i].closed <=> sent[i].closed
      /\ sent[i] # Untouched => sent'[i] # Untouched
  <2>1. ev.type \notin Ends
    BY <1>1 DEF Ends
  <2> QED
    BY <1>1, <2>1, ContentSent
<1>4. /\ Sound(s) /\ OnlyAbout(tr, s, i) /\ (s.finished <=> tr.finished)
      /\ s.blocks = tr.blocks /\ Held(s, i, sent[i].parts, sent[i].closed)
  BY <1>1, <1>2, ContentBegin
<1> HIDE DEF s
<1>5. ContentKnown(i)'
  BY <1>1, <1>3, <1>4 DEF Held, ContentKnown, Emitted, Registered
<1> QED
  BY <1>1, <1>4, <1>5 DEF ContentStep

LEMMA DeltaStep ==
  ASSUME orderly, UpstreamTyped, UpstreamKnows, Good(tr), Booked(tr), InReading,
         NEW ev \in Events, Sends(ev), TextDelta(ev) \/ ArgumentsDelta(ev)
  PROVE  ContentStep(ev.item)
<1> DEFINE i == ev.item
           s == EnsureStart(tr)
           r == Feed(s, Key(i), ev.n, FALSE)
<1>1. /\ i \in Messages \cup Calls /\ ev.type \in Deltas /\ ev.type # "item.added"
      /\ i \in Calls => ev.type = "arguments.delta"
  BY EventItems, ItemsAssumption DEF TextDelta, ArgumentsDelta, Deltas
<1>2. tr' = r
  BY Zenon DEF TextDelta, ArgumentsDelta, Becomes
<1>3. ContentKnown(i) /\ tr.thinking = Nowhere
  BY <1>1, ContentQuiet DEF InReading
<1>4. /\ ev.n = 1 /\ ~sent[i].closed /\ sent'[i].parts = sent[i].parts + 1
      /\ sent[i].parts \in Nat /\ sent'[i] # Untouched
      /\ i \in Calls => sent[i].added
  BY <1>1, ContentSent
<1>5. /\ Sound(s) /\ OnlyAbout(tr, s, i) /\ (s.finished <=> tr.finished)
      /\ s.thinking = Nowhere
      /\ Held(s, i, sent[i].parts, sent[i].closed) /\ s.blocks = tr.blocks
  BY <1>1, <1>3, ContentBegin
<1> HIDE DEF s
<1>6. Held(s, i, sent[i].parts, FALSE)
  BY <1>4, <1>5 DEF Held
<1>7. i \in Calls => Registered(s, Key(i))
  BY <1>3, <1>4, <1>5 DEF ContentKnown, Registered
<1>8. FALSE \in BOOLEAN /\ ev.n \in Nat \ {0}
  BY <1>4
<1>9. /\ Sound(r) /\ OnlyAbout(s, r, i) /\ (r.finished <=> s.finished)
      /\ Held(r, i, sent[i].parts + ev.n, FALSE) /\ Registered(r, Key(i))
  BY <1>1, <1>4, <1>5, <1>6, <1>7, <1>8, HeldFeed
<1> HIDE DEF r
<1>10. OnlyAbout(tr, r, i)
  BY <1>5, <1>9, AboutTwice
<1>11. /\ Sound(tr') /\ OnlyAbout(tr, tr', i) /\ (tr'.finished <=> tr.finished)
       /\ Held(tr', i, sent[i].parts + ev.n, FALSE) /\ Registered(tr', Key(i))
  BY <1>2, <1>5, <1>9, <1>10
<1> HIDE DEF i
<1>12. ContentStep(i)
  BY <1>1, <1>4, <1>11, ContentStepOf
<1> QED
  BY <1>12 DEF i

LEMMA PartAddedStep ==
  ASSUME orderly, UpstreamTyped, UpstreamKnows, Good(tr), Booked(tr), InReading,
         NEW ev \in Events, Sends(ev), ContentPartAdded(ev)
  PROVE  ContentStep(ev.item)
<1> DEFINE i == ev.item
           s == EnsureStart(tr)
           r == EnsureBlock(s, Key(i), FALSE)
<1>1. /\ i \in Messages \cup Calls /\ i \notin Calls /\ ev.type = "content_part.added"
      /\ tr' = r
  BY EventItems, ItemsAssumption DEF ContentPartAdded, Becomes
<1>2. ContentKnown(i) /\ tr.thinking = Nowhere
  BY <1>1, ContentQuiet DEF InReading
<1>3. /\ sent'[i].parts = sent[i].parts /\ sent[i].parts \in Nat /\ sent'[i] # Untouched
      /\ sent[i].closed => sent'[i].closed
  <2>1. ev.type \notin Ends
    BY <1>1 DEF Ends
  <2> QED
    BY <1>1, <2>1, ContentSent
<1>4. /\ Sound(s) /\ OnlyAbout(tr, s, i) /\ (s.finished <=> tr.finished)
      /\ s.thinking = Nowhere
      /\ Held(s, i, sent[i].parts, sent[i].closed)
  BY <1>1, <1>2, ContentBegin
<1> HIDE DEF s
<1>5. FALSE \in BOOLEAN
  OBVIOUS
<1>6. /\ Sound(r) /\ OnlyAbout(s, r, i) /\ (r.finished <=> s.finished)
      /\ Held(r, i, sent[i].parts, sent[i].closed) /\ Registered(r, Key(i))
  BY <1>1, <1>3, <1>4, <1>5, HeldEnsure
<1> HIDE DEF r
<1>7. OnlyAbout(tr, r, i)
  BY <1>4, <1>6, AboutTwice
<1>8. /\ Sound(tr') /\ OnlyAbout(tr, tr', i) /\ (tr'.finished <=> tr.finished)
      /\ Held(tr', i, sent[i].parts, sent[i].closed) /\ Registered(tr', Key(i))
  BY <1>1, <1>4, <1>6, <1>7
<1> HIDE DEF i
<1>9. ContentStep(i)
  BY <1>1, <1>3, <1>8, ContentStepOf
<1> QED
  BY <1>9 DEF i

\* The end of a part, of arguments or of an item: what came of it so far is all
\* of it or nothing, and is in the client's hands; nothing is said twice.
LEMMA EndOfContent ==
  ASSUME NEW s, Sound(s), s.thinking = Nowhere, NEW i \in Messages \cup Calls,
         NEW p \in Nat, NEW c, Held(s, i, p, c), NEW n \in Nat \ {0}, p > 0 => p = n, p = 0 => ~c,
         NEW named \in BOOLEAN, i \in Calls => named \/ Registered(s, Key(i))
  PROVE  LET k == Key(i)
             r == StopBlock(IF Emitted(s, k) THEN s ELSE Feed(s, k, n, named), k)
         IN /\ Sound(r) /\ OnlyAbout(s, r, i) /\ (r.finished <=> s.finished)
            /\ Held(r, i, n, TRUE) /\ Registered(r, k)
<1> DEFINE k == Key(i)
           f == Feed(s, k, n, named)
           q == IF Emitted(s, k) THEN s ELSE f
           r == StopBlock(q, k)
<1>1. /\ Sound(q) /\ OnlyAbout(s, q, i) /\ (q.finished <=> s.finished)
      /\ Registered(q, k) /\ \E d \in {c, FALSE} : Held(q, i, n, d)
  <2>1. CASE Emitted(s, k)
    <3>1. p > 0 /\ p = n /\ q = s /\ Registered(s, k)
      BY <2>1 DEF Held, Emitted
    <3>2. OnlyAbout(s, s, i)
      BY AboutNothing DEF Sound, Started
    <3> HIDE DEF q
    <3> QED
      BY <3>1, <3>2
  <2>2. CASE ~Emitted(s, k)
    <3>1. p = 0 /\ q = f
      BY <2>2 DEF Held
    <3>2. Held(s, i, p, FALSE)
      BY <3>1 DEF Held
    <3>3. /\ Sound(f) /\ OnlyAbout(s, f, i) /\ (f.finished <=> s.finished)
          /\ Held(f, i, p + n, FALSE) /\ Registered(f, k)
      BY <3>2, HeldFeed
    <3>4. p + n = n
      BY <3>1
    <3> HIDE DEF f, q
    <3> QED
      BY <3>1, <3>3, <3>4
  <2> QED
    BY <2>1, <2>2
<1> HIDE DEF q
<1>2. PICK d \in {c, FALSE} : Held(q, i, n, d)
  BY <1>1
<1>3. /\ Sound(r) /\ OnlyAbout(q, r, i) /\ (r.finished <=> q.finished)
      /\ Held(r, i, n, TRUE) /\ Registered(r, k)
  BY <1>1, <1>2, HeldStop
<1> HIDE DEF r, k
<1>4. OnlyAbout(s, r, i)
  BY <1>1, <1>3, AboutTwice
<1> QED
  BY <1>1, <1>3, <1>4 DEF r, q, k

LEMMA ContentDoneStep ==
  ASSUME orderly, UpstreamTyped, UpstreamKnows, Good(tr), Booked(tr), InReading,
         NEW ev \in Events, Sends(ev), ContentPartDone(ev) \/ MessageDone(ev)
  PROVE  ContentStep(ev.item)
<1> DEFINE i == ev.item
           k == Key(i)
           s == EnsureStart(tr)
           r == StopBlock(IF Emitted(s, k) THEN s ELSE Feed(s, k, ev.n, FALSE), k)
           t == StopBlock(IF Emitted(tr, k) \/ ev.n = 0 THEN tr ELSE Feed(s, k, ev.n, FALSE), k)
<1>1. /\ i \in Messages \cup Calls /\ i \notin Calls /\ ev.type \in Ends
      /\ ev.type # "item.added"
  BY EventItems, ItemsAssumption DEF ContentPartDone, MessageDone, Ends
<1>2. tr' = t
  BY Zenon DEF ContentPartDone, MessageDone, Becomes
<1>3. ContentKnown(i) /\ tr.thinking = Nowhere
  BY <1>1, ContentQuiet DEF InReading
<1>4. /\ ev.n = Full[i] /\ sent'[i].parts = Full[i] /\ sent'[i].closed
      /\ sent[i].parts > 0 => sent[i].parts = Full[i]
      /\ sent[i].parts = 0 => ~sent[i].closed
      /\ sent[i].parts \in Nat /\ Full[i] \in Nat \ {0} /\ sent'[i] # Untouched
  BY <1>1, ContentSent
<1>5. /\ Sound(s) /\ OnlyAbout(tr, s, i) /\ (s.finished <=> tr.finished)
      /\ s.thinking = Nowhere /\ s.blocks = tr.blocks /\ (Registered(tr, k) => s = tr)
      /\ Held(s, i, sent[i].parts, sent[i].closed)
  BY <1>1, <1>3, ContentBegin
<1>6. t = r
  <2>1. Emitted(s, k) <=> Emitted(tr, k)
    BY <1>5, Zenon DEF Emitted, Registered
  <2>2. Emitted(tr, k) => s = tr
    BY <1>5, Zenon DEF Emitted
  <2>3. ev.n # 0
    BY <1>4
  <2> HIDE DEF s, k
  <2> QED
    BY <2>1, <2>2, <2>3
<1> HIDE DEF s, k, t
<1>7. FALSE \in BOOLEAN
  OBVIOUS
<1>8. /\ Sound(r) /\ OnlyAbout(s, r, i) /\ (r.finished <=> s.finished)
      /\ Held(r, i, Full[i], TRUE) /\ Registered(r, k)
  BY <1>1, <1>4, <1>5, <1>7, EndOfContent DEF k
<1> HIDE DEF r
<1>9. OnlyAbout(tr, r, i)
  BY <1>5, <1>8, AboutTwice
<1>10. /\ Sound(tr') /\ OnlyAbout(tr, tr', i) /\ (tr'.finished <=> tr.finished)
       /\ Held(tr', i, Full[i], TRUE) /\ Registered(tr', Key(i))
  BY <1>2, <1>5, <1>6, <1>8, <1>9 DEF k
<1> HIDE DEF i
<1>11. ContentStep(i)
  BY <1>1, <1>4, <1>10, ContentStepOf
<1> QED
  BY <1>11 DEF i

LEMMA CallAddedStep ==
  ASSUME orderly, UpstreamTyped, UpstreamKnows, Good(tr), Booked(tr), InReading,
         NEW ev \in Events, Sends(ev), CallAdded(ev)
  PROVE  ContentStep(ev.item)
<1> DEFINE i == ev.item
           k == Key(i)
           s == EnsureStart(tr)
           q == EnsureBlock(s, k, TRUE)
           r == Feed(q, k, ev.n, TRUE)
<1>1. /\ i \in Messages \cup Calls /\ i \in Calls /\ ev.type = "item.added" /\ tr' = r
  BY DEF CallAdded, Becomes
<1>2. ContentKnown(i) /\ tr.thinking = Nowhere
  BY <1>1, ContentQuiet DEF InReading
<1>3. /\ ev.n \in {0, Full[i]} /\ sent[i].parts = 0 /\ ~sent[i].closed
      /\ sent'[i].parts = ev.n /\ sent'[i].added /\ Full[i] \in Nat \ {0}
      /\ sent'[i] # Untouched
  BY <1>1, ContentSent
<1>4. /\ Sound(s) /\ OnlyAbout(tr, s, i) /\ (s.finished <=> tr.finished)
      /\ s.thinking = Nowhere
      /\ Held(s, i, sent[i].parts, sent[i].closed)
  BY <1>1, <1>2, ContentBegin
<1> HIDE DEF s
<1>5. Held(s, i, 0, FALSE)
  BY <1>3, <1>4 DEF Held
<1>6. TRUE \in BOOLEAN /\ 0 \in Nat
  OBVIOUS
<1>7. /\ Sound(q) /\ q.thinking = Nowhere /\ OnlyAbout(s, q, i)
      /\ (q.finished <=> s.finished)
      /\ Held(q, i, 0, FALSE) /\ Registered(q, k)
  BY <1>1, <1>4, <1>5, <1>6, HeldEnsure
<1> HIDE DEF q
<1>8. /\ Sound(r) /\ OnlyAbout(q, r, i) /\ (r.finished <=> q.finished)
      /\ Held(r, i, ev.n, FALSE) /\ Registered(r, k)
  <2>1. CASE ev.n = 0
    <3>1. r = q
      BY <2>1 DEF Feed
    <3>2. OnlyAbout(q, q, i)
      BY <1>7, AboutNothing DEF Sound, Started
    <3> HIDE DEF r
    <3> QED
      BY <1>7, <2>1, <3>1, <3>2
  <2>2. CASE ev.n # 0
    <3>1. ev.n \in Nat \ {0} /\ 0 + ev.n = ev.n
      BY <1>3, <2>2
    <3>2. /\ Sound(r) /\ OnlyAbout(q, r, i) /\ (r.finished <=> q.finished)
          /\ Held(r, i, 0 + ev.n, FALSE) /\ Registered(r, k)
      BY <1>1, <1>6, <1>7, <3>1, HeldFeed
    <3> HIDE DEF r
    <3> QED
      BY <3>1, <3>2
  <2> QED
    BY <2>1, <2>2
<1> HIDE DEF r
<1>9. OnlyAbout(tr, r, i)
  <2>1. OnlyAbout(s, r, i)
    BY <1>7, <1>8, AboutTwice
  <2> QED
    BY <1>4, <2>1, AboutTwice
<1>10. /\ Sound(tr') /\ OnlyAbout(tr, tr', i) /\ (tr'.finished <=> tr.finished)
       /\ Held(tr', i, ev.n, FALSE) /\ Registered(tr', Key(i))
  BY <1>1, <1>4, <1>7, <1>8, <1>9
<1> HIDE DEF i
<1>11. ContentStep(i)
  BY <1>1, <1>3, <1>10, ContentStepOf
<1> QED
  BY <1>11 DEF i

LEMMA CallDoneStep ==
  ASSUME orderly, UpstreamTyped, UpstreamKnows, Good(tr), Booked(tr), InReading,
         NEW ev \in Events, Sends(ev), CallDone(ev)
  PROVE  ContentStep(ev.item)
<1> DEFINE i == ev.item
           k == Key(i)
           named == ev.type = "item.done"
           s == EnsureStart(tr)
           q == EnsureBlock(s, k, named)
           r == StopBlock(IF Emitted(q, k) THEN q ELSE Feed(q, k, ev.n, named), k)
<1>1. /\ i \in Messages \cup Calls /\ i \in Calls /\ ev.type \in Ends
      /\ ev.type # "item.added" /\ ev.type \in {"arguments.done", "item.done"}
  BY DEF CallDone, Ends
<1>2. tr' = r
  BY Zenon DEF CallDone, Becomes
<1>3. ContentKnown(i) /\ tr.thinking = Nowhere
  BY <1>1, ContentQuiet DEF InReading
<1>4. /\ ev.n = Full[i] /\ sent'[i].parts = Full[i] /\ sent'[i].closed
      /\ sent[i].parts > 0 => sent[i].parts = Full[i]
      /\ sent[i].parts = 0 => ~sent[i].closed
      /\ sent[i].parts \in Nat /\ Full[i] \in Nat \ {0} /\ sent'[i] # Untouched
      /\ ev.type = "arguments.done" => sent[i].added
  BY <1>1, ContentSent
<1>5. /\ Sound(s) /\ OnlyAbout(tr, s, i) /\ (s.finished <=> tr.finished)
      /\ s.thinking = Nowhere /\ s.blocks = tr.blocks
      /\ Held(s, i, sent[i].parts, sent[i].closed)
  BY <1>1, <1>3, ContentBegin
<1>6. named \in BOOLEAN /\ (named \/ Registered(s, k))
  BY <1>1, <1>3, <1>4, <1>5 DEF ContentKnown, Registered
<1> HIDE DEF s, named
<1>7. /\ Sound(q) /\ q.thinking = Nowhere /\ OnlyAbout(s, q, i)
      /\ (q.finished <=> s.finished)
      /\ Held(q, i, sent[i].parts, sent[i].closed) /\ Registered(q, k)
  BY <1>1, <1>4, <1>5, <1>6, HeldEnsure
<1> HIDE DEF q
<1>8. /\ Sound(r) /\ OnlyAbout(q, r, i) /\ (r.finished <=> q.finished)
      /\ Held(r, i, Full[i], TRUE) /\ Registered(r, k)
  BY <1>1, <1>4, <1>6, <1>7, EndOfContent
<1> HIDE DEF r
<1>9. OnlyAbout(tr, r, i)
  <2>1. OnlyAbout(s, r, i)
    BY <1>7, <1>8, AboutTwice
  <2> QED
    BY <1>5, <2>1, AboutTwice
<1>10. /\ Sound(tr') /\ OnlyAbout(tr, tr', i) /\ (tr'.finished <=> tr.finished)
       /\ Held(tr', i, Full[i], TRUE) /\ Registered(tr', Key(i))
  BY <1>2, <1>5, <1>7, <1>8, <1>9
<1> HIDE DEF i
<1>11. ContentStep(i)
  BY <1>1, <1>4, <1>10, ContentStepOf
<1> QED
  BY <1>11 DEF i

\* An event about text or a call leaves what is known of everything else.
LEMMA ContentStepReads ==
  ASSUME orderly, UpstreamTyped, NEW ev \in Events, Sends(ev),
         ev.item \in Messages \cup Calls, Good(tr), Booked(tr), InReading, ContentStep(ev.item)
  PROVE  Booked(tr') /\ InReading'
<1> DEFINE i == ev.item
<1>1. /\ tr.thinking = Nowhere /\ OpenReasoning = {} /\ OpenReasoning' = {}
  BY ContentQuiet DEF InReading
<1>2. i \notin Reasonings
  BY ItemsAssumption
<1>3. /\ Booked(tr') /\ OnlyAbout(tr, tr', i) /\ ContentKnown(i)'
  BY DEF ContentStep, Sound
<1>4. /\ SameThoughts(tr, tr')
      /\ \A j \in Items : j # i => tr'.wire.got[j] = tr.wire.got[j]
      /\ \A k \in Keys : k[1] # i =>
           /\ k \in DOMAIN tr'.blocks <=> k \in DOMAIN tr.blocks
           /\ k \in DOMAIN tr.blocks => tr'.blocks[k] = tr.blocks[k]
  BY <1>3 DEF OnlyAbout
<1>5. ASSUME NEW j \in Messages \cup Calls, j # i PROVE ContentKnown(j)'
  <2>1. sent'[j] = sent[j]
    BY <1>5, SentElsewhere DEF Items
  <2>2. Key(j) \in Keys /\ Key(j)[1] = j /\ <<j, TRUE>> \in Keys /\ <<j, TRUE>>[1] = j
    BY KeyOf DEF Keys
  <2>3. ContentKnown(j) /\ j \in Items
    BY DEF InReading, Items
  <2>4. tr'.wire.got[j] = tr.wire.got[j]
    BY <1>4, <1>5, <2>3
  <2>5. /\ Key(j) \in DOMAIN tr'.blocks <=> Key(j) \in DOMAIN tr.blocks
        /\ Key(j) \in DOMAIN tr.blocks => tr'.blocks[Key(j)] = tr.blocks[Key(j)]
        /\ <<j, TRUE>> \in DOMAIN tr'.blocks <=> <<j, TRUE>> \in DOMAIN tr.blocks
    BY <1>4, <1>5, <2>2
  <2> QED
    BY <2>1, <2>3, <2>4, <2>5 DEF ContentKnown, Emitted, Registered
<1>6. ASSUME NEW j \in Reasonings PROVE ThoughtKnown(j)'
  <2>1. sent'[j] = sent[j] /\ tr'.wire.got[j] = tr.wire.got[j]
    BY <1>2, <1>4, <1>6, SentElsewhere DEF Items
  <2>2. ThoughtKnown(j)
    BY DEF InReading
  <2> QED
    BY <1>1, <1>4, <2>1, <2>2 DEF ThoughtKnown, SameThoughts
<1>7. InHand'
  <2>1. tr'.thinking = Nowhere /\ tr'.signature = tr.signature /\ tr'.mode = tr.mode
    BY <1>1, <1>4 DEF SameThoughts
  <2>2. tr.mode # "off" => tr.signature = NoItem
    BY <1>1 DEF InReading, InHand
  <2> QED
    BY <2>1, <2>2 DEF InHand
<1> QED
  BY <1>3, <1>5, <1>6, <1>7 DEF InReading

-----------------------------------------------------------------------------
(***************************************************************************)
(* Reasoning while the answer is read.                                     *)
(***************************************************************************)
InOrder(s) == Good(s) /\ Booked(s)

\* A step from s to r is about reasoning item i alone, under key k.
Aside(s, r, i, k) ==
  /\ Grown(s, r) /\ r.mode = s.mode /\ r.blocks = s.blocks /\ (r.hasTool <=> s.hasTool)
  /\ (r.finished <=> s.finished) /\ (s.started => r.started)
  /\ \A j \in Items : j # i => r.wire.got[j] = s.wire.got[j]
  /\ \A l : l # k => (l \in r.completed <=> l \in s.completed)
  /\ s.completed \subseteq r.completed
  /\ s.wire.signed \subseteq r.wire.signed

LEMMA AsideTwice ==
  ASSUME NEW s, NEW q, NEW r, NEW i, NEW k, Aside(s, q, i, k), Aside(q, r, i, k)
  PROVE  Aside(s, r, i, k)
<1>1. Grown(s, r)
  BY DEF Aside, Grown
<1> QED
  BY <1>1 DEF Aside

LEMMA AsideNothing ==
  ASSUME NEW s, Good(s), NEW i, NEW k
  PROVE  Aside(s, s, i, k)
<1>1. Grown(s, s)
  BY DEF Grown, Good, Counted
<1> QED
  BY <1>1 DEF Aside

\* A step that keeps the registered blocks keeps the books.
LEMMA BookedAside ==
  ASSUME NEW s, InOrder(s), NEW r, NEW i, NEW k, Aside(s, r, i, k), DOMAIN r.wire.got = Items,
         \A x \in r.wire.signed : x[1] = x[2] /\ x[2] \in Signed,
         r.mode = "off" => r.wire.signed = {},
         \A b \in 1 .. r.next : b \notin 1 .. s.next =>
           r.wire.blocks[b].kind = "thinking" /\ r.wire.blocks[b].item \in Reasonings
  PROVE  Booked(r)
<1>1. ASSUME NEW b \in 1 .. r.next
      PROVE  /\ IF r.wire.blocks[b].kind = "thinking" THEN r.wire.blocks[b].item \in Reasonings
                ELSE \E x \in DOMAIN r.blocks :
                       r.blocks[x].index = b /\ r.wire.blocks[b].item = x[1]
             /\ r.wire.blocks[b].kind = "tool" => r.wire.blocks[b].named
  <2>1. CASE b \notin 1 .. s.next
    BY <2>1
  <2>2. CASE b \in 1 .. s.next
    <3>1. /\ r.wire.blocks[b].kind = s.wire.blocks[b].kind
          /\ r.wire.blocks[b].item = s.wire.blocks[b].item
          /\ s.wire.blocks[b].named => r.wire.blocks[b].named
          /\ r.blocks = s.blocks
      BY <2>2 DEF Aside, Grown
    <3>2. /\ IF s.wire.blocks[b].kind = "thinking" THEN s.wire.blocks[b].item \in Reasonings
             ELSE \E x \in DOMAIN s.blocks :
                    s.blocks[x].index = b /\ s.wire.blocks[b].item = x[1]
          /\ s.wire.blocks[b].kind = "tool" => s.wire.blocks[b].named
      BY <2>2 DEF InOrder, Booked
    <3> QED
      BY <3>1, <3>2
  <2> QED
    BY <2>1, <2>2
<1>2. /\ \A x, l \in DOMAIN r.blocks : x[1] = l[1] => x = l
      /\ \A x \in DOMAIN r.blocks : x[1] \in Calls => x = Key(x[1])
      /\ r.hasTool <=> \E x \in DOMAIN r.blocks : KindOf(x) = "tool"
  BY DEF InOrder, Booked, Aside
<1> QED
  BY <1>1, <1>2 DEF Booked

\* A step that shows the client nothing.
LEMMA UnseenAside ==
  ASSUME NEW s, InOrder(s), NEW r, IsTranslator(r), r.mode = s.mode, r.blocks = s.blocks,
         r.next = s.next, r.wire = s.wire, r.thinking = s.thinking,
         r.completed = s.completed, r.hasTool <=> s.hasTool, r.started <=> s.started,
         r.finished <=> s.finished, r.reasonKey[1] \in Items \cup {NoItem}, NEW i, NEW k
  PROVE  InOrder(r) /\ Aside(s, r, i, k)
<1>1. Good(r)
  BY OtherFields DEF InOrder
<1>2. Grown(s, r)
  BY DEF Grown, InOrder, Good, Counted
<1>3. Aside(s, r, i, k)
  BY <1>2 DEF Aside
<1>4. Booked(r)
  BY <1>3, BookedAside DEF InOrder, Booked
<1> QED
  BY <1>1, <1>3, <1>4 DEF InOrder

LEMMA SignedShown ==
  ASSUME NEW w, IsWire(w), NEW b, NEW item
  PROVE  /\ SignatureDelta(w, b, item).got = w.got
         /\ SignatureDelta(w, b, item).blocks = w.blocks
         /\ SignatureDelta(w, b, item).signed = w.signed \cup {<<w.blocks[b].item, item>>}
         /\ IsWire(SignatureDelta(w, b, item))
BY DEF IsWire, SignatureDelta

\* The thinking block in hand is item i's, under key k, and so is a signature in
\* hand.
OfItem(s, i, k) ==
  /\ s.thinking # Nowhere => s.reasonKey = k /\ s.wire.blocks[s.thinking].item = i
  /\ s.signature # NoItem => s.signature = i /\ i \in Signed

LEMMA FinalizeAside ==
  ASSUME NEW s, InOrder(s), s.mode # "off", s.thinking # Nowhere, NEW i \in Reasonings,
         NEW k, k[1] = i, OfItem(s, i, k), NEW clear \in BOOLEAN
  PROVE  LET r == FinalizeThinking(s, clear)
         IN /\ InOrder(r) /\ Aside(s, r, i, k) /\ r.thinking = Nowhere
            /\ r.wire.got = s.wire.got /\ k \in r.completed
            /\ s.signature = i => <<i, i>> \in r.wire.signed
            /\ r.signature = IF clear THEN NoItem ELSE s.signature
<1> DEFINE signed == IF s.signature = NoItem THEN s.wire
                     ELSE SignatureDelta(s.wire, s.thinking, s.signature)
           w == BlocksStop(signed, {s.thinking})
           f == FinalizeThinking(s, clear)
           r == [s EXCEPT !.wire = w, !.completed = s.completed \cup ({s.reasonKey} \ {NoKey}),
                          !.thinking = Nowhere, !.stopPending = FALSE,
                          !.signature = IF clear THEN NoItem ELSE s.signature,
                          !.reasonKey = IF clear THEN NoKey ELSE s.reasonKey]
<1>1. f = r
  BY DEF FinalizeThinking
<1>2. /\ Good(f) /\ SameEnds(s, f) /\ f.thinking = Nowhere /\ f.blocks = s.blocks
  BY FinalizeGood DEF InOrder
<1> HIDE DEF f
<1>3. /\ IsTranslator(s) /\ IsWire(s.wire) /\ s.wire.blocks \in Seq(WireBlock)
      /\ s.next = Len(s.wire.blocks) /\ s.next \in Nat /\ i # NoItem /\ i \in Items
  BY ItemsAssumption DEF InOrder, Good, Counted, Items
<1>4. /\ IsWire(signed) /\ signed.got = s.wire.got /\ signed.blocks = s.wire.blocks
      /\ signed.signed = s.wire.signed \cup (IF s.signature = NoItem THEN {} ELSE {<<i, i>>})
  <2> DEFINE d == SignatureDelta(s.wire, s.thinking, s.signature)
  <2>1. /\ IsWire(d) /\ d.got = s.wire.got /\ d.blocks = s.wire.blocks
        /\ d.signed = s.wire.signed \cup {<<s.wire.blocks[s.thinking].item, s.signature>>}
    BY <1>3, SignedShown
  <2> HIDE DEF d
  <2>2. signed = IF s.signature = NoItem THEN s.wire ELSE d
    BY DEF d
  <2> HIDE DEF signed
  <2>3. CASE s.signature = NoItem
    BY <1>3, <2>2, <2>3
  <2>4. CASE s.signature # NoItem
    BY <2>1, <2>2, <2>4 DEF OfItem
  <2> QED
    BY <2>3, <2>4
<1> HIDE DEF signed
<1>5. /\ w.got = s.wire.got /\ w.signed = signed.signed
      /\ \A b \in 1 .. s.next :
           /\ w.blocks[b].kind = s.wire.blocks[b].kind
           /\ w.blocks[b].item = s.wire.blocks[b].item
           /\ s.wire.blocks[b].named => w.blocks[b].named
  BY <1>3, <1>4, StoppedShown
<1> HIDE DEF w
<1>6. /\ r.wire = w /\ r.next = s.next /\ r.completed = s.completed \cup ({s.reasonKey} \ {NoKey})
      /\ (r.hasTool <=> s.hasTool)
      /\ r.signature = IF clear THEN NoItem ELSE s.signature
  BY <1>3 DEF IsTranslator
<1> HIDE DEF r
<1>7. s.reasonKey = k /\ k # NoKey
  BY <1>3, ReasoningKeyFields DEF OfItem
<1>8. Grown(s, r)
  BY <1>3, <1>5, <1>6 DEF Grown
<1>9. Aside(s, r, i, k)
  BY <1>1, <1>2, <1>4, <1>5, <1>6, <1>7, <1>8 DEF Aside, SameEnds
<1>10. Booked(r)
  <2>1. \A x \in r.wire.signed : x[1] = x[2] /\ x[2] \in Signed
    <3>1. \A x \in s.wire.signed : x[1] = x[2] /\ x[2] \in Signed
      BY DEF InOrder, Booked
    <3>2. s.signature # NoItem => <<i, i>>[1] = <<i, i>>[2] /\ <<i, i>>[2] \in Signed
      BY DEF OfItem
    <3> QED
      BY <1>4, <1>5, <1>6, <3>1, <3>2
  <2>2. DOMAIN r.wire.got = Items
    BY <1>5, <1>6 DEF InOrder, Booked
  <2>3. r.mode # "off" /\ r.next = s.next
    BY <1>1, <1>2, <1>6 DEF SameEnds
  <2> QED
    BY <1>9, <2>1, <2>2, <2>3, BookedAside
<1> QED
  BY <1>1, <1>2, <1>3, <1>4, <1>5, <1>6, <1>7, <1>9, <1>10 DEF InOrder, f

LEMMA EnsureThinkingAside ==
  ASSUME NEW s, InOrder(s), s.mode # "off", NEW i \in Reasonings,
         NEW k, k[1] = i, OfItem(s, i, k), s.reasonKey = k
  PROVE  LET r == EnsureThinkingBlock(s)
         IN /\ InOrder(r) /\ Aside(s, r, i, k) /\ r.thinking # Nowhere /\ OfItem(r, i, k)
            /\ r.wire.got = s.wire.got /\ r.completed = s.completed
            /\ r.signature = s.signature
<1>1. CASE s.thinking # Nowhere
  <2> DEFINE r == EnsureThinkingBlock(s)
  <2>1. r = s
    BY <1>1 DEF EnsureThinkingBlock
  <2>2. Aside(s, s, i, k)
    BY AsideNothing DEF InOrder
  <2> HIDE DEF r
  <2> QED
    BY <1>1, <2>1, <2>2 DEF r
<1>2. CASE s.thinking = Nowhere
  <2> DEFINE q == EnsureStart(s)
             f == EnsureThinkingBlock(s)
             v == BlockStart(q.wire, q.next + 1, "thinking", q.reasonKey[1], FALSE)
             r == [q EXCEPT !.wire = v, !.next = q.next + 1, !.thinking = q.next + 1,
                            !.stopPending = FALSE]
  <2>1. f = r
    BY <1>2 DEF EnsureThinkingBlock
  <2>2. /\ Good(f) /\ f.thinking # Nowhere /\ f.mode = s.mode /\ (f.finished <=> s.finished)
        /\ (s.started => f.started)
    BY EnsureThinkingGood DEF InOrder
  <2> HIDE DEF f
  <2>3. /\ Sound(q) /\ OnlyAbout(s, q, i) /\ q.blocks = s.blocks /\ q.wire.got = s.wire.got
    BY EnsureStartAbout DEF InOrder
  <2>4. /\ q.hasTool <=> s.hasTool
        /\ q.next = s.next
    BY DEF EnsureStart, InOrder, Good, IsTranslator
  <2> HIDE DEF q
  <2>5. /\ Grown(s, q) /\ SameThoughts(s, q) /\ Booked(q) /\ IsTranslator(q) /\ IsWire(q.wire)
        /\ q.next \in Nat /\ q.wire.blocks \in Seq(WireBlock) /\ q.next = Len(q.wire.blocks)
    BY <2>3 DEF Sound, Started, Good, Counted, OnlyAbout
  <2>6. q.reasonKey = k /\ q.mode = s.mode /\ q.signature = s.signature
        /\ q.completed = s.completed /\ q.wire.signed = s.wire.signed
    BY <2>5 DEF SameThoughts
  <2> DEFINE block == [kind |-> "thinking", item |-> i, named |-> FALSE, open |-> TRUE]
  <2>7. /\ v.got = s.wire.got /\ v.signed = s.wire.signed
        /\ v.blocks = Append(q.wire.blocks, block)
    BY <2>3, <2>5, <2>6 DEF IsWire, BlockStart
  <2>8. block.kind = "thinking" /\ block.item = i /\ block \in WireBlock
    BY DEF WireBlock, Items
  <2> HIDE DEF v, block
  <2>9. /\ r.wire = v /\ r.next = q.next + 1 /\ r.thinking = q.next + 1
        /\ r.blocks = q.blocks /\ (r.hasTool <=> q.hasTool) /\ r.reasonKey = k
        /\ r.completed = s.completed /\ r.signature = s.signature /\ r.mode = s.mode
    BY <2>5, <2>6 DEF IsTranslator
  <2> HIDE DEF r
  <2>10. /\ \A b \in 1 .. q.next : r.wire.blocks[b] = q.wire.blocks[b]
         /\ r.wire.blocks[q.next + 1] = block
    BY <2>5, <2>7, <2>8, <2>9, Appended
  <2>11. Grown(s, r)
    <3>1. \A b \in 1 .. s.next : r.wire.blocks[b] = q.wire.blocks[b]
      BY <2>4, <2>10
    <3>2. s.next \in Nat /\ r.next \in Nat /\ s.next <= r.next
      BY <2>4, <2>5, <2>9
    <3>3. \A b \in 1 .. s.next :
            /\ q.wire.blocks[b].kind = s.wire.blocks[b].kind
            /\ q.wire.blocks[b].item = s.wire.blocks[b].item
            /\ s.wire.blocks[b].named => q.wire.blocks[b].named
      BY <2>5 DEF Grown
    <3> QED
      BY <3>1, <3>2, <3>3, Zenon DEF Grown
  <2>12. Aside(s, r, i, k)
    BY <2>1, <2>2, <2>3, <2>4, <2>7, <2>9, <2>11 DEF Aside
  <2>13. Booked(r)
    <3>1. \A b \in 1 .. r.next : b \notin 1 .. s.next =>
            r.wire.blocks[b].kind = "thinking" /\ r.wire.blocks[b].item \in Reasonings
      BY <2>4, <2>5, <2>8, <2>9, <2>10
    <3>2. /\ \A x \in r.wire.signed : x[1] = x[2] /\ x[2] \in Signed
          /\ r.mode = "off" => r.wire.signed = {}
          /\ DOMAIN r.wire.got = Items
      BY <2>7, <2>9 DEF InOrder, Booked
    <3> QED
      BY <2>12, <3>1, <3>2, BookedAside
  <2>14. OfItem(r, i, k)
    BY <2>8, <2>9, <2>10 DEF OfItem
  <2> QED
    BY <2>1, <2>2, <2>7, <2>9, <2>12, <2>13, <2>14 DEF InOrder, f
<1> QED
  BY <1>1, <1>2

LEMMA ThinkingDeltaAside ==
  ASSUME NEW s, InOrder(s), s.mode # "off", s.thinking # Nowhere, NEW i \in Reasonings,
         NEW k, k[1] = i, OfItem(s, i, k), NEW n \in Nat, s.wire.got[i] \in Nat
  PROVE  LET r == ThinkingDelta(s, i, n)
         IN /\ InOrder(r) /\ Aside(s, r, i, k) /\ r.thinking # Nowhere /\ OfItem(r, i, k)
            /\ r.wire.got[i] = IF s.mode = "summarized" THEN s.wire.got[i] + n
                                                        ELSE s.wire.got[i]
            /\ r.completed = s.completed /\ r.signature = s.signature
<1> DEFINE f == ThinkingDelta(s, i, n)
<1>1. CASE s.mode # "summarized" \/ n = 0
  <2>1. f = s
    BY <1>1 DEF ThinkingDelta
  <2>2. Aside(s, s, i, k)
    BY AsideNothing DEF InOrder
  <2> HIDE DEF f
  <2>5. s.wire.got[i] = IF s.mode = "summarized" THEN s.wire.got[i] + n ELSE s.wire.got[i]
    BY <1>1
  <2> QED
    BY <2>1, <2>2, <2>5 DEF f
<1>2. CASE ~(s.mode # "summarized" \/ n = 0)
  <2> DEFINE v == BlockDelta(s.wire, s.thinking, "thinking", i, n)
             r == [s EXCEPT !.wire = v]
  <2>1. f = r
    BY <1>2 DEF ThinkingDelta, EnsureThinkingBlock
  <2>2. Good(f) /\ SameEnds(s, f)
    BY ThinkingDeltaGood DEF InOrder
  <2>3. IsTranslator(s) /\ IsWire(s.wire) /\ DOMAIN s.wire.got = Items /\ i \in Items
    BY DEF InOrder, Good, Booked, Items
  <2>4. /\ v.blocks = s.wire.blocks /\ v.signed = s.wire.signed
        /\ v.got = [s.wire.got EXCEPT ![i] = @ + n]
    BY <2>3 DEF IsWire, BlockDelta
  <2>5. /\ DOMAIN v.got = Items /\ v.got[i] = s.wire.got[i] + n
        /\ \A j \in Items : j # i => v.got[j] = s.wire.got[j]
    BY <2>3, <2>4
  <2> HIDE DEF v, f
  <2>6. /\ r.wire = v /\ r.next = s.next /\ r.blocks = s.blocks /\ (r.hasTool <=> s.hasTool)
        /\ r.thinking = s.thinking /\ r.reasonKey = s.reasonKey
        /\ r.completed = s.completed /\ r.signature = s.signature /\ r.mode = s.mode
        /\ (r.started <=> s.started)
    BY <2>3 DEF IsTranslator
  <2> HIDE DEF r
  <2>7. Grown(s, r)
    BY <2>4, <2>6 DEF Grown, InOrder, Good, Counted
  <2>8. Aside(s, r, i, k)
    BY <2>1, <2>2, <2>4, <2>5, <2>6, <2>7 DEF Aside, SameEnds
  <2>9. Booked(r)
    BY <2>4, <2>5, <2>6, <2>8, BookedAside DEF InOrder, Booked
  <2>10. OfItem(r, i, k)
    BY <2>4, <2>6 DEF OfItem
  <2> QED
    BY <1>2, <2>1, <2>2, <2>5, <2>6, <2>8, <2>9, <2>10 DEF InOrder, f
<1> QED
  BY <1>1, <1>2

\* Item i is the reasoning in hand, under key k, or is to be: p of its fragments
\* have come, b tells that its block has begun, g that its signature is known.
Minded(s, i, k, p, b, g) ==
  /\ s.wire.got[i] = IF s.mode = "summarized" THEN p ELSE 0
  /\ s.mode # "off" => /\ OfItem(s, i, k)
                       /\ s.thinking # Nowhere <=> b
                       /\ k \in s.completed => b
                       /\ g => s.signature = i

\* The client has n fragments of item i, and nothing is in hand.
Heard(s, i, k, n) ==
  /\ s.wire.got[i] = IF s.mode = "summarized" THEN n ELSE 0
  /\ s.mode # "off" => /\ s.thinking = Nowhere /\ s.signature = NoItem
                       /\ k \in s.completed \/ (s.mode = "omitted" /\ i \notin Signed)
                       /\ i \in Signed => <<i, i>> \in s.wire.signed

LEMMA StartThinkingMinded ==
  ASSUME NEW s, InOrder(s), NEW i \in Reasonings, NEW p, NEW b \in BOOLEAN, NEW g \in BOOLEAN,
         Minded(s, i, Key(i), p, b, g)
  PROVE  LET r == StartThinkingPart(s, i)
         IN InOrder(r) /\ Aside(s, r, i, Key(i)) /\ Minded(r, i, Key(i), p, TRUE, g)
<1> DEFINE f == StartThinkingPart(s, i)
<1>1. CASE s.mode = "off"
  <2>1. f = s
    BY <1>1 DEF StartThinkingPart
  <2>2. Aside(s, s, i, Key(i))
    BY AsideNothing DEF InOrder
  <2> HIDE DEF f
  <2> QED
    BY <1>1, <2>1, <2>2 DEF Minded, f
<1>2. CASE s.mode # "off"
  <2> DEFINE q == IF s.thinking # Nowhere /\ s.stopPending
                  THEN FinalizeThinking(s, FALSE) ELSE s
             r == [q EXCEPT !.reasonKey = Key(i)]
             e == EnsureThinkingBlock(r)
  <2>1. f = e
    BY <1>2 DEF StartThinkingPart
  <2>2. /\ OfItem(s, i, Key(i)) /\ (s.thinking # Nowhere <=> b) /\ (Key(i) \in s.completed => b)
        /\ (g => s.signature = i)
        /\ s.wire.got[i] = IF s.mode = "summarized" THEN p ELSE 0
    BY <1>2 DEF Minded
  <2>3. /\ InOrder(q) /\ Aside(s, q, i, Key(i)) /\ OfItem(q, i, Key(i)) /\ q.wire.got = s.wire.got
        /\ q.signature = s.signature
    <3>1. CASE s.thinking # Nowhere /\ s.stopPending
      <4> DEFINE z == FinalizeThinking(s, FALSE)
      <4>1. FALSE \in BOOLEAN
        OBVIOUS
      <4>2. /\ InOrder(z) /\ Aside(s, z, i, Key(i)) /\ z.thinking = Nowhere
            /\ z.wire.got = s.wire.got /\ z.signature = s.signature
        BY <1>2, <2>2, <3>1, <4>1, ReasoningKeyFields, FinalizeAside
      <4>3. q = z
        BY <3>1
      <4> HIDE DEF q, z
      <4>4. OfItem(z, i, Key(i))
        BY <2>2, <4>2 DEF OfItem
      <4> QED
        BY <4>2, <4>3, <4>4
    <3>2. CASE ~(s.thinking # Nowhere /\ s.stopPending)
      <4>1. q = s
        BY <3>2
      <4>2. Aside(s, s, i, Key(i))
        BY AsideNothing DEF InOrder
      <4> HIDE DEF q
      <4> QED
        BY <2>2, <4>1, <4>2
    <3> QED
      BY <3>1, <3>2
  <2> HIDE DEF f, q
  <2>4. /\ IsTranslator(r) /\ r.mode = q.mode /\ r.blocks = q.blocks
        /\ r.next = q.next /\ r.wire = q.wire /\ r.thinking = q.thinking
        /\ r.completed = q.completed /\ (r.hasTool <=> q.hasTool) /\ (r.started <=> q.started)
        /\ (r.finished <=> q.finished) /\ r.reasonKey = Key(i) /\ r.signature = q.signature
    BY <2>3 DEF InOrder, Good, IsTranslator
  <2> HIDE DEF r, e
  <2>5. Key(i)[1] = i /\ i \in Items
    BY ReasoningKeyFields DEF Items
  <2>6. InOrder(r) /\ Aside(q, r, i, Key(i))
    BY <2>3, <2>4, <2>5, UnseenAside
  <2>7. OfItem(r, i, Key(i)) /\ r.mode # "off"
    BY <1>2, <2>3, <2>4 DEF OfItem, Aside
  <2>8. /\ InOrder(e) /\ Aside(r, e, i, Key(i)) /\ e.thinking # Nowhere /\ OfItem(e, i, Key(i))
        /\ e.wire.got = r.wire.got /\ e.signature = r.signature
    BY <2>4, <2>5, <2>6, <2>7, EnsureThinkingAside DEF e
  <2>9. Aside(s, e, i, Key(i))
    <3>1. Aside(s, r, i, Key(i))
      BY <2>3, <2>6, AsideTwice
    <3> QED
      BY <2>8, <3>1, AsideTwice
  <2>10. e.mode = s.mode
    BY <2>9 DEF Aside
  <2>11. Minded(e, i, Key(i), p, TRUE, g)
    BY <2>2, <2>3, <2>4, <2>8, <2>10 DEF Minded
  <2> QED
    BY <2>1, <2>8, <2>9, <2>11 DEF f
<1> QED
  BY <1>1, <1>2

LEMMA ThinkingDeltaMinded ==
  ASSUME NEW s, InOrder(s), NEW i \in Reasonings, NEW k, k[1] = i, NEW p \in Nat, NEW g \in BOOLEAN,
         Minded(s, i, k, p, TRUE, g), NEW n \in Nat
  PROVE  LET r == ThinkingDelta(s, i, n)
         IN InOrder(r) /\ Aside(s, r, i, k) /\ Minded(r, i, k, p + n, TRUE, g)
<1> DEFINE r == ThinkingDelta(s, i, n)
<1>1. CASE s.mode = "off"
  <2>1. r = s
    BY <1>1 DEF ThinkingDelta
  <2>2. Aside(s, s, i, k)
    BY AsideNothing DEF InOrder
  <2> HIDE DEF r
  <2> QED
    BY <1>1, <2>1, <2>2 DEF Minded, r
<1>2. CASE s.mode # "off"
  <2>1. /\ OfItem(s, i, k) /\ s.thinking # Nowhere /\ (g => s.signature = i)
        /\ s.wire.got[i] = IF s.mode = "summarized" THEN p ELSE 0
    BY <1>2 DEF Minded
  <2>2. s.wire.got[i] \in Nat
    BY <2>1
  <2>3. /\ InOrder(r) /\ Aside(s, r, i, k) /\ r.thinking # Nowhere /\ OfItem(r, i, k)
        /\ r.wire.got[i] = IF s.mode = "summarized" THEN s.wire.got[i] + n
                                                    ELSE s.wire.got[i]
        /\ r.signature = s.signature
    BY <1>2, <2>1, <2>2, ThinkingDeltaAside
  <2> HIDE DEF r
  <2>4. r.mode = s.mode
    BY <2>3 DEF Aside
  <2>5. r.wire.got[i] = IF r.mode = "summarized" THEN p + n ELSE 0
    BY <2>1, <2>3, <2>4
  <2>6. Minded(r, i, k, p + n, TRUE, g)
    BY <2>1, <2>3, <2>5 DEF Minded
  <2> QED
    BY <2>3, <2>6 DEF r
<1> QED
  BY <1>1, <1>2

LEMMA CaptureMinded ==
  ASSUME NEW s, InOrder(s), NEW i \in Reasonings, NEW p, NEW b \in BOOLEAN, NEW g \in BOOLEAN,
         Minded(s, i, Key(i), p, b, g), NEW sig \in BOOLEAN, sig => i \in Signed
  PROVE  LET r == CaptureSignature([s EXCEPT !.reasonKey = Key(i)], i, sig)
         IN InOrder(r) /\ Aside(s, r, i, Key(i)) /\ Minded(r, i, Key(i), p, b, g \/ sig)
<1> DEFINE r == CaptureSignature([s EXCEPT !.reasonKey = Key(i)], i, sig)
<1>1. i \in Items /\ i # NoItem /\ Key(i)[1] = i
  BY ItemsAssumption, ReasoningKeyFields DEF Items
<1>2. IsTranslator(s)
  BY DEF InOrder, Good
<1>3. /\ IsTranslator(r) /\ r.mode = s.mode /\ r.blocks = s.blocks
      /\ r.next = s.next /\ r.wire = s.wire /\ r.thinking = s.thinking
      /\ r.completed = s.completed /\ (r.hasTool <=> s.hasTool) /\ (r.started <=> s.started)
      /\ (r.finished <=> s.finished) /\ r.reasonKey = Key(i)
  BY <1>2 DEF CaptureSignature, IsTranslator
<1>4. r.signature = IF s.mode = "off" \/ ~sig THEN s.signature ELSE i
  BY <1>2 DEF CaptureSignature, IsTranslator
<1> HIDE DEF r
<1>5. InOrder(r) /\ Aside(s, r, i, Key(i))
  BY <1>1, <1>3, UnseenAside
<1>6. Minded(r, i, Key(i), p, b, g \/ sig)
  BY <1>1, <1>3, <1>4 DEF Minded, OfItem
<1> QED
  BY <1>5, <1>6 DEF r

\* The block of an item that has come to its end is signed and closed.
LEMMA FinalizeHeard ==
  ASSUME NEW s, InOrder(s), NEW i \in Reasonings, NEW k, k[1] = i, NEW n, NEW g \in BOOLEAN,
         Minded(s, i, k, n, TRUE, g), g <=> i \in Signed, s.mode # "off"
  PROVE  LET r == FinalizeThinking(s, TRUE)
         IN InOrder(r) /\ Aside(s, r, i, k) /\ Heard(r, i, k, n)
<1> DEFINE r == FinalizeThinking(s, TRUE)
<1>1. /\ OfItem(s, i, k) /\ s.thinking # Nowhere /\ (g => s.signature = i)
      /\ s.wire.got[i] = IF s.mode = "summarized" THEN n ELSE 0
  BY DEF Minded
<1>2. TRUE \in BOOLEAN
  OBVIOUS
<1>3. /\ InOrder(r) /\ Aside(s, r, i, k) /\ r.thinking = Nowhere
      /\ r.wire.got = s.wire.got /\ k \in r.completed
      /\ s.signature = i => <<i, i>> \in r.wire.signed
      /\ r.signature = IF TRUE THEN NoItem ELSE s.signature
  BY <1>1, <1>2, FinalizeAside
<1> HIDE DEF r
<1>4. r.mode = s.mode
  BY <1>3 DEF Aside
<1>5. Heard(r, i, k, n)
  BY <1>1, <1>3, <1>4 DEF Heard
<1> QED
  BY <1>3, <1>5 DEF r

\* An item no block has begun for is told whole, whatever of it was told before.
LEMMA EmitHeard ==
  ASSUME NEW s, InOrder(s), NEW i \in Reasonings, NEW k, k[1] = i, NEW p \in Nat,
         NEW g \in BOOLEAN, Minded(s, i, k, p, FALSE, g), NEW sig \in BOOLEAN, sig \/ g <=> i \in Signed
  PROVE  LET r == EmitFinalReasoning(s, k, Full[i], sig)
         IN InOrder(r) /\ Aside(s, r, i, k) /\ Heard(r, i, k, p + Full[i])
<1> DEFINE summary == IF s.mode = "omitted" THEN 0 ELSE Full[i]
           signature == IF sig THEN i ELSE s.signature
           q == [s EXCEPT !.reasonKey = k, !.signature = signature]
           e == EnsureThinkingBlock(q)
           d == ThinkingDelta(e, i, summary)
           r == FinalizeThinking(d, TRUE)
           f == EmitFinalReasoning(s, k, Full[i], sig)
<1>1. /\ i \in Items /\ i # NoItem /\ Full[i] \in Nat \ {0}
  BY ItemsAssumption, BoundsAssumption DEF Items
<1>2. IsTranslator(s)
  BY DEF InOrder, Good
<1>3. Aside(s, s, i, k)
  BY AsideNothing DEF InOrder
<1>4. s.wire.got[i] = IF s.mode = "summarized" THEN p ELSE 0
  BY DEF Minded
<1>5. CASE s.mode = "off"
  <2>1. f = s
    BY <1>5 DEF EmitFinalReasoning
  <2> HIDE DEF f
  <2>2. Heard(s, i, k, p + Full[i])
    BY <1>4, <1>5 DEF Heard
  <2> QED
    BY <1>3, <2>1, <2>2 DEF f
<1>6. CASE s.mode # "off"
  <2>1. /\ OfItem(s, i, k) /\ s.thinking = Nowhere /\ k \notin s.completed
        /\ (g => s.signature = i)
    BY <1>6 DEF Minded
  <2>2. (s.signature = NoItem \/ s.signature = i) /\ (s.signature = i => i \in Signed)
        /\ signature = (IF i \in Signed THEN i ELSE NoItem)
    BY <1>1, <2>1 DEF OfItem
  <2>3. s.mode = "omitted" \/ s.mode = "summarized" \/ summary = Full[i]
    OBVIOUS
  <2>4. CASE summary = 0 /\ signature = NoItem
    <3>1. f = s
      BY <1>6, <2>4 DEF EmitFinalReasoning
    <3>2. s.mode = "omitted" /\ i \notin Signed
      BY <1>1, <2>2, <2>4
    <3>3. s.signature = NoItem
      BY <2>2, <3>2
    <3> HIDE DEF f
    <3>4. Heard(s, i, k, p + Full[i])
      BY <1>4, <2>1, <3>2, <3>3 DEF Heard
    <3> QED
      BY <1>3, <3>1, <3>4 DEF f
  <2>5. CASE ~(summary = 0 /\ signature = NoItem)
    <3>1. f = r
      BY <1>6, <2>1, <2>5 DEF EmitFinalReasoning
    <3>2. summary \in Nat /\ (s.mode = "summarized" => summary = Full[i])
      BY <1>1
    <3> HIDE DEF summary, signature, f
    <3>3. /\ IsTranslator(q) /\ q.mode = s.mode /\ q.blocks = s.blocks
          /\ q.next = s.next /\ q.wire = s.wire /\ q.thinking = s.thinking
          /\ q.completed = s.completed /\ (q.hasTool <=> s.hasTool) /\ (q.started <=> s.started)
          /\ (q.finished <=> s.finished) /\ q.reasonKey = k /\ q.signature = signature
      BY <1>2 DEF IsTranslator
    <3> HIDE DEF q
    <3>4. InOrder(q) /\ Aside(s, q, i, k)
      BY <1>1, <3>3, UnseenAside
    <3>5. OfItem(q, i, k) /\ q.mode # "off"
      BY <1>1, <1>6, <2>1, <2>2, <3>3 DEF OfItem
    <3>6. /\ InOrder(e) /\ Aside(q, e, i, k) /\ e.thinking # Nowhere /\ OfItem(e, i, k)
          /\ e.wire.got = q.wire.got /\ e.signature = q.signature
      BY <3>3, <3>4, <3>5, EnsureThinkingAside
    <3> HIDE DEF e
    <3>7. e.mode = s.mode /\ e.wire.got[i] = IF s.mode = "summarized" THEN p ELSE 0
      BY <1>4, <3>3, <3>6 DEF Aside
    <3>8. e.mode # "off" /\ e.wire.got[i] \in Nat
      BY <1>6, <3>7
    <3>9. /\ InOrder(d) /\ Aside(e, d, i, k) /\ d.thinking # Nowhere /\ OfItem(d, i, k)
          /\ d.wire.got[i] = IF e.mode = "summarized" THEN e.wire.got[i] + summary
                                                      ELSE e.wire.got[i]
          /\ d.signature = e.signature
      BY <3>2, <3>6, <3>8, ThinkingDeltaAside
    <3> HIDE DEF d
    <3>10. d.mode = s.mode
      BY <3>7, <3>9 DEF Aside
    <3>11. d.mode # "off" /\ TRUE \in BOOLEAN
      BY <1>6, <3>10
    <3>12. d.wire.got[i] = IF s.mode = "summarized" THEN p + Full[i] ELSE 0
      BY <1>1, <3>2, <3>7, <3>9
    <3>13. i \in Signed => d.signature = i
      BY <2>2, <3>3, <3>6, <3>9
    <3>14. PICK h \in BOOLEAN : h <=> i \in Signed
      OBVIOUS
    <3>15. Minded(d, i, k, p + Full[i], TRUE, h)
      BY <3>9, <3>10, <3>12, <3>13, <3>14 DEF Minded
    <3>16. InOrder(r) /\ Aside(d, r, i, k) /\ Heard(r, i, k, p + Full[i])
      BY <3>9, <3>11, <3>14, <3>15, FinalizeHeard
    <3> HIDE DEF r
    <3>17. Aside(s, r, i, k)
      <4>1. Aside(s, e, i, k)
        BY <3>4, <3>6, AsideTwice
      <4>2. Aside(s, d, i, k)
        BY <3>9, <4>1, AsideTwice
      <4> QED
        BY <3>16, <4>2, AsideTwice
    <3> QED
      BY <3>1, <3>16, <3>17 DEF f
  <2> QED
    BY <2>4, <2>5
<1> QED
  BY <1>5, <1>6

LEMMA ReasoningAmounts ==
  ASSUME NEW ev \in Events, ev.item \in Reasonings
  PROVE  /\ ev.sig => ev.type \in {"item.added", "item.done"}
         /\ ev.type = "item.added" => ev.n = 0
<1>1. \A types, items, amounts, sigs :
        ev \in Ev(types, items, amounts, sigs)
          => ev.type \in types /\ ev.item \in items /\ ev.n \in amounts /\ ev.sig \in sigs
  BY DEF Ev
<1>2. \A types, items, sigs :
        ev \in Whole(types, items, sigs) => ev.type \in types /\ ev.item \in items
  <2> SUFFICES ASSUME NEW types, NEW items, NEW sigs, ev \in Whole(types, items, sigs)
               PROVE  ev.type \in types /\ ev.item \in items
    OBVIOUS
  <2>1. PICK i \in items : ev \in Ev(types, {i}, {0, Full[i]}, sigs)
    BY DEF Whole
  <2> QED
    BY <1>1, <2>1
<1>3. ev.item \notin Messages /\ ev.item \notin Calls /\ ev.item # NoItem
  BY ItemsAssumption DEF Items
<1>4. /\ \A types, amounts, sigs :
           /\ ev \notin Ev(types, {NoItem}, amounts, sigs)
           /\ ev \notin Ev(types, Messages, amounts, sigs)
           /\ ev \notin Ev(types, Calls, amounts, sigs)
      /\ \A types, sigs :
           ev \notin Whole(types, Messages, sigs) /\ ev \notin Whole(types, Calls, sigs)
  BY <1>1, <1>2, <1>3
<1>5. \/ ev \in Ev({"reasoning_part.added", "reasoning_part.done"}, Reasonings, {0}, {FALSE})
      \/ ev \in Ev({"reasoning.delta"}, Reasonings, {1}, {FALSE})
      \/ ev \in Ev({"item.added"}, Reasonings, {0}, BOOLEAN)
      \/ ev \in Whole({"item.done"}, Reasonings, BOOLEAN)
  BY <1>4, Zenon DEF Events
<1>6. \/ ev.type \in {"reasoning_part.added", "reasoning_part.done", "reasoning.delta"}
         /\ ev.sig \in {FALSE}
      \/ ev.type \in {"item.added"} /\ ev.n \in {0}
      \/ ev.type \in {"item.done"}
  <2>1. CASE \/ ev \in Ev({"reasoning_part.added", "reasoning_part.done"}, Reasonings, {0}, {FALSE})
             \/ ev \in Ev({"reasoning.delta"}, Reasonings, {1}, {FALSE})
    <3>1. ev.sig \in {FALSE}
      BY <1>1, <2>1, Zenon
    <3>2. ev.type \in {"reasoning_part.added", "reasoning_part.done", "reasoning.delta"}
      BY <1>1, <2>1
    <3> QED
      BY <3>1, <3>2
  <2>2. CASE ev \in Ev({"item.added"}, Reasonings, {0}, BOOLEAN)
    BY <1>1, <2>2, Zenon
  <2>3. CASE ev \in Whole({"item.done"}, Reasonings, BOOLEAN)
    BY <1>2, <2>3, Zenon
  <2> QED
    BY <1>5, <2>1, <2>2, <2>3, Zenon
<1>7. ev.sig => ev.type = "item.added" \/ ev.type = "item.done"
  <2>1. ev.sig \in {FALSE} => ~ev.sig
    BY Zenon
  <2> QED
    BY <1>6, <2>1, Zenon
<1>8. ev.type = "item.added" => ev.n = 0
  BY <1>6
<1> QED
  BY <1>7, <1>8

LEMMA ReasoningSent ==
  ASSUME orderly, UpstreamTyped, UpstreamKnows, NEW ev \in Events, ev.item \in Reasonings,
         Sends(ev)
  PROVE  LET i == ev.item
         IN /\ sent[i].parts \in Nat /\ sent[i].opened \in Nat /\ Full[i] \in Nat \ {0}
            /\ sent[i].signed \in BOOLEAN /\ ~sent[i].done /\ sent'[i] # Untouched
            /\ ev.type = "reasoning_part.added" =>
                 sent'[i].parts = sent[i].parts /\ sent'[i].opened > 0
            /\ ev.type = "reasoning.delta" => ev.n = 1 /\ sent'[i].parts = sent[i].parts + 1
            /\ ev.type = "reasoning_part.done" =>
                 /\ sent'[i].parts = sent[i].parts /\ sent[i].parts > 0
                 /\ sent'[i].opened = sent[i].opened
            /\ ev.type = "item.added" =>
                 /\ sent[i].parts = 0 /\ sent[i].opened = 0
                 /\ sent'[i].parts = 0 /\ sent'[i].opened = 0
                 /\ ev.sig => i \in Signed
            /\ ev.type = "item.done" =>
                 /\ ev.n = Full[i] /\ (Begun(i) => sent[i].parts = Full[i])
                 /\ (ev.sig \/ sent[i].signed <=> i \in Signed)
            /\ (sent'[i].done <=> ev.type = "item.done")
            /\ ev.sig \in BOOLEAN
            /\ (sent'[i].signed <=> sent[i].signed \/ ev.sig)
            /\ (ev.sig => ev.type \in {"item.added", "item.done"})
<1> DEFINE i == ev.item
<1>1. i \in Items /\ i \notin Messages /\ i \notin Calls
  BY ItemsAssumption DEF Items
<1>2. /\ MaySendItem(ev) /\ Full[i] \in Nat \ {0} /\ sent[i] \in Sending(i)
      /\ sent'[i].parts = IF ev.type \in Ends THEN Full[i] ELSE sent[i].parts + ev.n
      /\ (sent'[i].closed <=> sent[i].closed \/ ev.type \in Ends)
      /\ (sent'[i].added <=> sent[i].added \/ (ev.type = "item.added" /\ i \notin Messages))
      /\ sent'[i].opened = IF ev.type \in PartBegins THEN sent[i].parts + 1
                           ELSE sent[i].opened
      /\ (sent'[i].done <=> sent[i].done \/ ev.type = "item.done")
      /\ (sent'[i].signed <=> sent[i].signed \/ ev.sig)
      /\ sent'[i].parts > 0 \/ sent'[i].opened > 0 \/ sent'[i].added \/ sent'[i].closed
           => sent'[i] # Untouched
  BY <1>1, SentOfItem, SentMore
<1>3. sent[i].parts \in 0 .. Full[i] /\ sent[i].opened \in Nat /\ sent[i].signed \in BOOLEAN
  BY <1>2 DEF Sending
<1>4. sent[i].parts \in Nat
  BY <1>2, <1>3
<1>5. (sent[i].closed <=> sent[i].done) /\ (sent[i].closed => sent[i].parts = Full[i])
  BY <1>1 DEF UpstreamKnows
<1>6. /\ \/ ev.type \in Deltas /\ ev.n = 1
         \/ ev.type \in PartBegins \cup {"reasoning_part.done"} /\ ev.n = 0
         \/ ev.type = "item.added"
         \/ ev.type \in Ends
      /\ ev.type \in Ends => ev.type = "item.done"
      /\ ev.sig \in BOOLEAN
  <2>1. ev.type \notin {"content_part.done", "arguments.done"}
    BY <1>1, EventItems
  <2> QED
    BY <1>1, <2>1, EventAmounts DEF Ends
<1>7. /\ ev.sig => ev.type \in {"item.added", "item.done"}
      /\ ev.type = "item.added" => ev.n = 0
  BY ReasoningAmounts
<1>8. ~sent[i].done
  <2>1. ev.type \in Deltas \cup PartBegins => ~sent[i].closed
    BY <1>2 DEF MaySendItem, MaySendDelta
  <2>2. ev.type = "item.added" => ~sent[i].closed
    BY <1>2, <1>5 DEF MaySendItem
  <2>3. ev.type = "reasoning_part.done" => ~sent[i].done
    BY <1>2 DEF MaySendItem
  <2>4. ev.type \in Ends => ~sent[i].done
    BY <1>2 DEF MaySendItem, MaySendWhole
  <2> QED
    BY <1>5, <1>6, <2>1, <2>2, <2>3, <2>4
<1>9. ev.type = "reasoning_part.added" =>
        sent'[i].parts = sent[i].parts /\ sent'[i].opened > 0
  <2>1. ev.type = "reasoning_part.added" =>
          ev.type \in PartBegins /\ ev.type \notin Ends /\ ev.type \notin Deltas
    BY DEF PartBegins, Ends, Deltas
  <2> QED
    BY <1>2, <1>4, <1>6, <2>1
<1>10. ev.type = "reasoning.delta" => ev.n = 1 /\ sent'[i].parts = sent[i].parts + 1
  <2>1. ev.type = "reasoning.delta" =>
          ev.type \in Deltas /\ ev.type \notin Ends
          /\ ev.type \notin PartBegins \cup {"reasoning_part.done"}
    BY DEF PartBegins, Ends, Deltas
  <2> QED
    BY <1>2, <1>6, <2>1
<1>11. ev.type = "reasoning_part.done" =>
         /\ sent'[i].parts = sent[i].parts /\ sent[i].parts > 0
         /\ sent'[i].opened = sent[i].opened
  <2>1. ev.type = "reasoning_part.done" =>
          ev.type \notin Ends /\ ev.type \notin Deltas /\ ev.type \notin PartBegins
    BY DEF PartBegins, Ends, Deltas
  <2>2. ev.type = "reasoning_part.done" => sent[i].parts > 0
    BY <1>2 DEF MaySendItem
  <2> QED
    BY <1>2, <1>4, <1>6, <2>1, <2>2
<1>12. ev.type = "item.added" =>
         /\ sent[i].parts = 0 /\ sent[i].opened = 0
         /\ sent'[i].parts = 0 /\ sent'[i].opened = 0
         /\ ev.sig => i \in Signed
  <2>1. ev.type = "item.added" => ev.type \notin Ends /\ ev.type \notin PartBegins
    BY DEF PartBegins, Ends
  <2>2. ev.type = "item.added" =>
          sent[i].parts = 0 /\ sent[i].opened = 0 /\ (ev.sig => i \in Signed)
    BY <1>2 DEF MaySendItem
  <2> QED
    BY <1>2, <1>7, <2>1, <2>2
<1>13. ev.type = "item.done" =>
         /\ ev.n = Full[i] /\ (Begun(i) => sent[i].parts = Full[i])
         /\ (ev.sig \/ sent[i].signed <=> i \in Signed)
  <2> SUFFICES ASSUME ev.type = "item.done"
               PROVE  /\ ev.n = Full[i] /\ (Begun(i) => sent[i].parts = Full[i])
                      /\ (ev.sig \/ sent[i].signed <=> i \in Signed)
    OBVIOUS
  <2>1. ev.type \in Ends
    BY DEF Ends
  <2>2. /\ MaySendWhole(i, ev.n) /\ (sent[i].opened > 0 => Conveyed(i))
        /\ ((ev.sig \/ sent[i].signed) <=> i \in Signed)
    BY <1>2, <2>1 DEF MaySendItem
  <2> QED
    BY <1>4, <2>2 DEF MaySendWhole, Conveyed, Begun
<1>14. sent'[i] # Untouched
  <2>1. \/ sent'[i].parts > 0 \/ sent'[i].opened > 0 \/ sent'[i].added \/ sent'[i].closed
    <3>1. ev.type \in Deltas => sent'[i].parts > 0
      <4>1. ev.type \in Deltas => ev.type = "reasoning.delta"
        BY <1>1, EventItems DEF Deltas
      <4> QED
        BY <1>4, <1>10, <4>1
    <3>2. ev.type \in PartBegins => sent'[i].opened > 0
      BY <1>2, <1>4
    <3> QED
      BY <1>1, <1>2, <1>6, <1>11, <3>1, <3>2
  <2> QED
    BY <1>2, <2>1
<1> QED
  BY <1>2, <1>3, <1>4, <1>6, <1>7, <1>8, <1>9, <1>10, <1>11, <1>12, <1>13, <1>14

\* The translator as it is when an event about a reasoning item is read.
LEMMA ThoughtBegin ==
  ASSUME orderly, UpstreamTyped, UpstreamKnows, Good(tr), Booked(tr), InReading,
         NEW ev \in Events, ev.item \in Reasonings, Sends(ev)
  PROVE  LET i == ev.item
             s == EnsureStart(tr)
         IN /\ InOrder(tr) /\ Minded(tr, i, Key(i), sent[i].parts, Begun(i), sent[i].signed)
            /\ InOrder(s) /\ Aside(tr, s, i, Key(i))
            /\ Minded(s, i, Key(i), sent[i].parts, Begun(i), sent[i].signed)
<1> DEFINE i == ev.item
           s == EnsureStart(tr)
<1>1. i \in Items /\ i # NoItem
  BY ItemsAssumption DEF Items
<1>2. /\ OpenReasoning \subseteq {i} /\ ~sent[i].done
  BY <1>1, OneReasoning, ReasoningSent
<1>3. /\ ThoughtKnown(i) /\ InHand
  BY DEF InReading
<1>4. tr.mode # "off" =>
        /\ OfItem(tr, i, Key(i))
        /\ (tr.thinking # Nowhere <=> Begun(i))
        /\ (Key(i) \in tr.completed => Begun(i))
        /\ (sent[i].signed => tr.signature = i)
  <2> SUFFICES ASSUME tr.mode # "off"
               PROVE  /\ OfItem(tr, i, Key(i))
                      /\ (tr.thinking # Nowhere <=> Begun(i))
                      /\ (Key(i) \in tr.completed => Begun(i))
                      /\ (sent[i].signed => tr.signature = i)
    OBVIOUS
  <2>1. Begun(i) => i \in OpenReasoning
    BY <1>1, <1>2, NotUntouched DEF OpenReasoning, Begun
  <2>2. tr.thinking # Nowhere => /\ tr.reasonKey = Key(i) /\ Begun(i)
                                 /\ tr.wire.blocks[tr.thinking].item = i
    <3> SUFFICES ASSUME tr.thinking # Nowhere
                 PROVE  /\ tr.reasonKey = Key(i) /\ Begun(i)
                        /\ tr.wire.blocks[tr.thinking].item = i
      OBVIOUS
    <3>1. \E j \in OpenReasoning : /\ tr.reasonKey = Key(j) /\ Begun(j)
                                   /\ tr.wire.blocks[tr.thinking].item = j
      BY <1>3 DEF InHand
    <3> QED
      BY <1>2, <3>1
  <2>3. Begun(i) => tr.thinking # Nowhere
    BY <1>3, <2>1 DEF ThoughtKnown
  <2>4. Key(i) \in tr.completed => Begun(i)
    BY <1>2, <1>3, <2>2 DEF ThoughtKnown
  <2>5. sent[i].signed => tr.signature = i
    <3>1. sent[i].signed => i \in OpenReasoning
      BY <1>1, <1>2, NotUntouched DEF OpenReasoning
    <3> QED
      BY <1>3, <3>1 DEF ThoughtKnown
  <2>6. tr.signature # NoItem => tr.signature = i /\ i \in Signed
    BY <1>2, <1>3 DEF InHand
  <2> QED
    BY <2>2, <2>3, <2>4, <2>5, <2>6 DEF OfItem
<1>5. InOrder(tr) /\ Minded(tr, i, Key(i), sent[i].parts, Begun(i), sent[i].signed)
  <2>1. tr.wire.got[i] = IF tr.mode = "summarized" THEN sent[i].parts ELSE 0
    BY <1>3 DEF ThoughtKnown
  <2> QED
    BY <1>4, <2>1 DEF Minded, InOrder
<1>6. /\ Sound(s) /\ OnlyAbout(tr, s, i) /\ s.blocks = tr.blocks
      /\ s.wire.got = tr.wire.got /\ (s.finished <=> tr.finished)
  BY EnsureStartAbout
<1>7. (s.hasTool <=> tr.hasTool) /\ s.next = tr.next
      /\ s.wire.blocks = tr.wire.blocks
  BY DEF EnsureStart, MessageStart, Good, IsTranslator, IsWire
<1> HIDE DEF s
<1>8. SameThoughts(tr, s) /\ Grown(tr, s) /\ s.started /\ InOrder(s)
  BY <1>6 DEF OnlyAbout, Sound, Started, InOrder
<1>9. Aside(tr, s, i, Key(i))
  BY <1>6, <1>7, <1>8 DEF Aside, SameThoughts
<1>10. Minded(s, i, Key(i), sent[i].parts, Begun(i), sent[i].signed)
  BY <1>5, <1>6, <1>7, <1>8 DEF Minded, OfItem, SameThoughts
<1> QED
  BY <1>5, <1>8, <1>9, <1>10 DEF s

\* What an event about item i makes of the translator.
ThoughtStep(i) ==
  /\ InOrder(tr') /\ Aside(tr, tr', i, Key(i))
  /\ IF sent'[i].done THEN Heard(tr', i, Key(i), Full[i])
                      ELSE Minded(tr', i, Key(i), sent'[i].parts, Begun(i)', sent'[i].signed)

LEMMA ThoughtStepReads ==
  ASSUME orderly, UpstreamTyped, UpstreamKnows, Good(tr), Booked(tr), InReading,
         NEW ev \in Events, ev.item \in Reasonings, Sends(ev), ThoughtStep(ev.item)
  PROVE  Booked(tr') /\ InReading' /\ (tr'.finished <=> tr.finished)
<1> DEFINE i == ev.item
<1>1. i \in Items /\ i # NoItem /\ i \notin Messages \cup Calls
  BY ItemsAssumption DEF Items
<1>8. /\ \A j : j # i => Key(j) # Key(i) /\ FinalKey(j) # Key(i)
      /\ i \in Anonymous => FinalKey(i) # Key(i)
  BY DEF Key, FinalKey
<1>2. /\ OpenReasoning \subseteq {i} /\ OpenReasoning' \subseteq {i}
  BY <1>1, OneReasoning
<1>3. InOrder(tr') /\ Aside(tr, tr', i, Key(i))
  BY DEF ThoughtStep
<1>9. tr'.mode # "off" /\ i \in Anonymous => FinalKey(i) \notin tr'.completed
  <2>1. ThoughtKnown(i)
    BY DEF InReading
  <2> QED
    BY <1>3, <1>8, <2>1 DEF Aside, ThoughtKnown
<1>4. ASSUME NEW j \in Messages \cup Calls PROVE ContentKnown(j)'
  <2>1. sent'[j] = sent[j] /\ j \in Items /\ j # i
    BY <1>1, <1>4, SentElsewhere DEF Items
  <2>2. ContentKnown(j)
    BY DEF InReading
  <2>3. tr'.wire.got[j] = tr.wire.got[j] /\ tr'.blocks = tr.blocks
    BY <1>3, <2>1 DEF Aside
  <2> QED
    BY <2>1, <2>2, <2>3 DEF ContentKnown, Emitted, Registered
<1>5. ASSUME NEW j \in Reasonings, j # i PROVE ThoughtKnown(j)'
  <2>1. sent'[j] = sent[j] /\ j \in Items
    BY <1>5, SentElsewhere DEF Items
  <2>2. ThoughtKnown(j) /\ InHand
    BY DEF InReading
  <2>3. /\ tr'.wire.got[j] = tr.wire.got[j] /\ tr'.mode = tr.mode
        /\ (Key(j) \in tr'.completed <=> Key(j) \in tr.completed)
        /\ (FinalKey(j) \in tr'.completed <=> FinalKey(j) \in tr.completed)
        /\ tr.wire.signed \subseteq tr'.wire.signed
    BY <1>3, <1>5, <1>8, <2>1 DEF Aside
  <2>4. tr.mode # "off" /\ Key(j) \in tr.completed => sent[j].done
    BY <1>2, <1>5, <1>8, <2>2 DEF ThoughtKnown, InHand
  <2>5. j \notin OpenReasoning'
    BY <1>2, <1>5
  <2> QED
    BY <2>1, <2>2, <2>3, <2>4, <2>5 DEF ThoughtKnown
<1>6. CASE sent'[i].done
  <2>1. Heard(tr', i, Key(i), Full[i])
    BY <1>6 DEF ThoughtStep
  <2>2. i \notin OpenReasoning' /\ sent'[i].parts = Full[i]
    <3>1. UpstreamKnows'
      BY UpstreamKnowsNext
    <3> QED
      BY <1>1, <1>6, <3>1 DEF UpstreamKnows, OpenReasoning
  <2>3. ThoughtKnown(i)'
    BY <1>6, <1>9, <2>1, <2>2 DEF ThoughtKnown, Heard
  <2>4. InHand'
    BY <2>1 DEF InHand, Heard
  <2> QED
    BY <1>3, <1>4, <1>5, <2>3, <2>4 DEF InReading, InOrder, Aside
<1>7. CASE ~sent'[i].done
  <2>1. Minded(tr', i, Key(i), sent'[i].parts, Begun(i)', sent'[i].signed)
    BY <1>7 DEF ThoughtStep
  <2>2. i \in OpenReasoning'
    BY <1>7, ReasoningSent DEF OpenReasoning
  <2>3. ThoughtKnown(i)'
    BY <1>7, <1>9, <2>1 DEF ThoughtKnown, Minded, OfItem
  <2>4. InHand'
    BY <2>1, <2>2 DEF InHand, Minded, OfItem
  <2> QED
    BY <1>3, <1>4, <1>5, <2>3, <2>4 DEF InReading, InOrder, Aside
<1> QED
  BY <1>6, <1>7

LEMMA ReasoningAddedStep ==
  ASSUME orderly, UpstreamTyped, UpstreamKnows, Good(tr), Booked(tr), InReading,
         NEW ev \in Events, ev.item \in Reasonings, Sends(ev), ReasoningAdded(ev)
  PROVE  ThoughtStep(ev.item)
<1> DEFINE i == ev.item
           s == EnsureStart(tr)
           r == CaptureSignature([s EXCEPT !.reasonKey = Key(i)], i, ev.sig)
<1>1. tr' = r /\ ev.type = "item.added"
  BY DEF ReasoningAdded, Becomes
<1>2. /\ sent[i].parts = 0 /\ sent[i].opened = 0 /\ sent'[i].parts = 0 /\ sent'[i].opened = 0
      /\ (ev.sig => i \in Signed) /\ ~sent'[i].done /\ ev.sig \in BOOLEAN
      /\ (sent'[i].signed <=> sent[i].signed \/ ev.sig) /\ sent[i].signed \in BOOLEAN
  BY <1>1, ReasoningSent
<1>3. ~Begun(i) /\ ~Begun(i)' /\ Begun(i) \in BOOLEAN
  BY <1>2 DEF Begun
<1>4. /\ InOrder(s) /\ Aside(tr, s, i, Key(i))
      /\ Minded(s, i, Key(i), sent[i].parts, Begun(i), sent[i].signed)
  BY ThoughtBegin
<1> HIDE DEF s
<1>5. InOrder(r) /\ Aside(s, r, i, Key(i))
      /\ Minded(r, i, Key(i), sent[i].parts, Begun(i), sent[i].signed \/ ev.sig)
  BY <1>2, <1>3, <1>4, CaptureMinded
<1> HIDE DEF r
<1>6. Aside(tr, r, i, Key(i))
  BY <1>4, <1>5, AsideTwice
<1>7. Minded(r, i, Key(i), sent'[i].parts, Begun(i)', sent'[i].signed)
  BY <1>2, <1>3, <1>5 DEF Minded
<1> QED
  BY <1>1, <1>2, <1>5, <1>6, <1>7 DEF ThoughtStep

LEMMA ReasoningPartAddedStep ==
  ASSUME orderly, UpstreamTyped, UpstreamKnows, Good(tr), Booked(tr), InReading,
         NEW ev \in Events, ev.item \in Reasonings, Sends(ev), ReasoningPartAdded(ev)
  PROVE  ThoughtStep(ev.item)
<1> DEFINE i == ev.item
           s == EnsureStart(tr)
           r == StartThinkingPart(s, i)
<1>1. tr' = r /\ ev.type = "reasoning_part.added"
  BY DEF ReasoningPartAdded, Becomes
<1>2. /\ sent'[i].parts = sent[i].parts /\ sent'[i].opened > 0
      /\ ~sent'[i].done /\ ~ev.sig
      /\ (sent'[i].signed <=> sent[i].signed \/ ev.sig) /\ sent[i].signed \in BOOLEAN
  BY <1>1, ReasoningSent
<1>3. Begun(i)' /\ Begun(i) \in BOOLEAN
  BY <1>2 DEF Begun
<1>4. /\ InOrder(s) /\ Aside(tr, s, i, Key(i))
      /\ Minded(s, i, Key(i), sent[i].parts, Begun(i), sent[i].signed)
  BY ThoughtBegin
<1> HIDE DEF s
<1>5. InOrder(r) /\ Aside(s, r, i, Key(i)) /\ Minded(r, i, Key(i), sent[i].parts, TRUE, sent[i].signed)
  BY <1>2, <1>3, <1>4, StartThinkingMinded
<1> HIDE DEF r
<1>6. Aside(tr, r, i, Key(i))
  BY <1>4, <1>5, AsideTwice
<1>7. Minded(r, i, Key(i), sent'[i].parts, Begun(i)', sent'[i].signed)
  BY <1>2, <1>3, <1>5 DEF Minded
<1> QED
  BY <1>1, <1>2, <1>5, <1>6, <1>7 DEF ThoughtStep

LEMMA ReasoningDeltaStep ==
  ASSUME orderly, UpstreamTyped, UpstreamKnows, Good(tr), Booked(tr), InReading,
         NEW ev \in Events, ev.item \in Reasonings, Sends(ev), ReasoningDelta(ev)
  PROVE  ThoughtStep(ev.item)
<1> DEFINE i == ev.item
           s == EnsureStart(tr)
           q == IF s.thinking = Nowhere THEN StartThinkingPart(s, i) ELSE s
           r == ThinkingDelta(q, i, ev.n)
<1>1. tr' = r /\ ev.type = "reasoning.delta"
  BY DEF ReasoningDelta, Becomes
<1>2. /\ ev.n = 1 /\ sent'[i].parts = sent[i].parts + 1 /\ sent[i].parts \in Nat
      /\ ~sent'[i].done /\ ~ev.sig
      /\ (sent'[i].signed <=> sent[i].signed \/ ev.sig) /\ sent[i].signed \in BOOLEAN
  BY <1>1, ReasoningSent
<1>3. Begun(i)' /\ Begun(i) \in BOOLEAN
  BY <1>2 DEF Begun
<1>4. /\ InOrder(s) /\ Aside(tr, s, i, Key(i))
      /\ Minded(s, i, Key(i), sent[i].parts, Begun(i), sent[i].signed)
  BY ThoughtBegin
<1> HIDE DEF s
<1>5. InOrder(q) /\ Aside(s, q, i, Key(i)) /\ Minded(q, i, Key(i), sent[i].parts, TRUE, sent[i].signed)
  <2>1. CASE s.thinking = Nowhere
    <3> DEFINE z == StartThinkingPart(s, i)
    <3>1. InOrder(z) /\ Aside(s, z, i, Key(i)) /\ Minded(z, i, Key(i), sent[i].parts, TRUE, sent[i].signed)
      BY <1>2, <1>3, <1>4, StartThinkingMinded
    <3>2. q = z
      BY <2>1
    <3> HIDE DEF z, q
    <3> QED
      BY <3>1, <3>2
  <2>2. CASE s.thinking # Nowhere
    <3>1. q = s
      BY <2>2
    <3>2. Aside(s, s, i, Key(i))
      BY <1>4, AsideNothing DEF InOrder
    <3> HIDE DEF q
    <3>3. Minded(s, i, Key(i), sent[i].parts, TRUE, sent[i].signed)
      BY <1>4, <2>2 DEF Minded
    <3> QED
      BY <1>4, <3>1, <3>2, <3>3
  <2> QED
    BY <2>1, <2>2
<1> HIDE DEF q
<1>6. ev.n \in Nat
  BY <1>2
<1>7. InOrder(r) /\ Aside(q, r, i, Key(i))
      /\ Minded(r, i, Key(i), sent[i].parts + ev.n, TRUE, sent[i].signed)
  BY <1>2, <1>5, <1>6, ReasoningKeyFields, ThinkingDeltaMinded
<1> HIDE DEF r
<1>8. Aside(tr, r, i, Key(i))
  <2>1. Aside(tr, q, i, Key(i))
    BY <1>4, <1>5, AsideTwice
  <2> QED
    BY <1>7, <2>1, AsideTwice
<1>9. Minded(r, i, Key(i), sent'[i].parts, Begun(i)', sent'[i].signed)
  BY <1>2, <1>3, <1>7 DEF Minded
<1> QED
  BY <1>1, <1>2, <1>7, <1>8, <1>9 DEF ThoughtStep

LEMMA ReasoningPartDoneStep ==
  ASSUME orderly, UpstreamTyped, UpstreamKnows, Good(tr), Booked(tr), InReading,
         NEW ev \in Events, ev.item \in Reasonings, Sends(ev), ReasoningPartDone(ev)
  PROVE  ThoughtStep(ev.item)
<1> DEFINE i == ev.item
           r == [tr EXCEPT !.stopPending = TRUE]
<1>1. tr' = r /\ ev.type = "reasoning_part.done"
  BY DEF ReasoningPartDone, Becomes
<1>2. /\ sent'[i].parts = sent[i].parts /\ sent'[i].opened = sent[i].opened
      /\ ~sent'[i].done /\ ~ev.sig
      /\ (sent'[i].signed <=> sent[i].signed \/ ev.sig) /\ sent[i].signed \in BOOLEAN
  BY <1>1, ReasoningSent
<1>3. Begun(i)' <=> Begun(i)
  BY <1>2 DEF Begun
<1>4. /\ InOrder(tr)
      /\ Minded(tr, i, Key(i), sent[i].parts, Begun(i), sent[i].signed)
  BY ThoughtBegin
<1>5. /\ IsTranslator(r) /\ r.mode = tr.mode /\ r.blocks = tr.blocks
      /\ r.next = tr.next /\ r.wire = tr.wire /\ r.thinking = tr.thinking
      /\ r.completed = tr.completed /\ (r.hasTool <=> tr.hasTool) /\ (r.started <=> tr.started)
      /\ (r.finished <=> tr.finished) /\ r.reasonKey = tr.reasonKey
      /\ r.signature = tr.signature
  BY DEF Good, IsTranslator
<1> HIDE DEF r
<1>6. r.reasonKey[1] \in Items \cup {NoItem}
  BY <1>5 DEF Good, Counted
<1>7. InOrder(r) /\ Aside(tr, r, i, Key(i))
  BY <1>4, <1>5, <1>6, UnseenAside
<1>8. Minded(r, i, Key(i), sent'[i].parts, Begun(i)', sent'[i].signed)
  BY <1>2, <1>3, <1>4, <1>5 DEF Minded, OfItem
<1> QED
  BY <1>1, <1>2, <1>7, <1>8 DEF ThoughtStep

LEMMA ReasoningDoneStep ==
  ASSUME orderly, UpstreamTyped, UpstreamKnows, Good(tr), Booked(tr), InReading,
         NEW ev \in Events, ev.item \in Reasonings, Sends(ev), ReasoningDone(ev)
  PROVE  ThoughtStep(ev.item)
<1> DEFINE i == ev.item
           s == CaptureSignature([tr EXCEPT !.reasonKey = Key(i)], i, ev.sig)
           r == IF s.thinking = Nowhere THEN EmitFinalReasoning(s, Key(i), ev.n, ev.sig)
                                        ELSE FinalizeThinking(s, TRUE)
<1>1. tr' = r /\ ev.type = "item.done"
  BY DEF ReasoningDone, Becomes
<1>2. /\ ev.n = Full[i] /\ (Begun(i) => sent[i].parts = Full[i])
      /\ (ev.sig \/ sent[i].signed <=> i \in Signed)
      /\ sent'[i].done /\ ev.sig \in BOOLEAN /\ sent[i].parts \in Nat
      /\ sent[i].signed \in BOOLEAN
  BY <1>1, ReasoningSent
<1>3. Begun(i) \in BOOLEAN /\ (~Begun(i) => sent[i].parts = 0)
  BY <1>2 DEF Begun
<1>4. /\ InOrder(tr)
      /\ Minded(tr, i, Key(i), sent[i].parts, Begun(i), sent[i].signed)
  BY ThoughtBegin
<1>5. ev.sig => i \in Signed
  BY <1>2
<1>6. /\ InOrder(s) /\ Aside(tr, s, i, Key(i))
      /\ Minded(s, i, Key(i), sent[i].parts, Begun(i), sent[i].signed \/ ev.sig)
  BY <1>2, <1>3, <1>4, <1>5, CaptureMinded
<1> HIDE DEF s
<1>7. PICK g \in BOOLEAN : g <=> sent[i].signed \/ ev.sig
  BY <1>2
<1>8. CASE s.thinking = Nowhere
  <2> DEFINE z == EmitFinalReasoning(s, Key(i), Full[i], ev.sig)
  <2>1. r = z
    BY <1>2, <1>8
  <2>2. CASE s.mode = "off"
    <3>1. z = s
      BY <2>2 DEF EmitFinalReasoning
    <3> HIDE DEF z, r
    <3>2. Heard(s, i, Key(i), Full[i])
      BY <1>6, <2>2 DEF Heard, Minded
    <3> QED
      BY <1>1, <1>2, <1>6, <2>1, <3>1, <3>2 DEF ThoughtStep
  <2>3. CASE s.mode # "off"
    <3>1. ~Begun(i) /\ sent[i].parts = 0
      BY <1>3, <1>6, <1>8, <2>3 DEF Minded
    <3>2. Minded(s, i, Key(i), 0, FALSE, g)
      BY <1>6, <1>7, <3>1 DEF Minded
    <3>3. ev.sig \/ g <=> i \in Signed
      BY <1>2, <1>7
    <3>6. 0 \in Nat /\ 0 + Full[i] = Full[i] /\ Key(i)[1] = i
      BY <1>1, ReasoningSent, ReasoningKeyFields
    <3>7. InOrder(z) /\ Aside(s, z, i, Key(i)) /\ Heard(z, i, Key(i), 0 + Full[i])
      BY <1>2, <1>6, <3>2, <3>3, <3>6, EmitHeard
    <3>4. InOrder(z) /\ Aside(s, z, i, Key(i)) /\ Heard(z, i, Key(i), Full[i])
      BY <3>6, <3>7
    <3> HIDE DEF z, r
    <3>5. Aside(tr, z, i, Key(i))
      BY <1>6, <3>4, AsideTwice
    <3> QED
      BY <1>1, <1>2, <2>1, <3>4, <3>5 DEF ThoughtStep
  <2> QED
    BY <2>2, <2>3
<1>9. CASE s.thinking # Nowhere
  <2> DEFINE z == FinalizeThinking(s, TRUE)
  <2>1. r = z
    BY <1>9
  <2>2. s.mode # "off"
    BY <1>6, <1>9 DEF InOrder, Good, Thinks
  <2>3. Begun(i) /\ sent[i].parts = Full[i]
    BY <1>2, <1>6, <1>9, <2>2 DEF Minded
  <2>4. Minded(s, i, Key(i), Full[i], TRUE, g)
    BY <1>6, <1>7, <2>3 DEF Minded
  <2>5. g <=> i \in Signed
    BY <1>2, <1>7
  <2>6. InOrder(z) /\ Aside(s, z, i, Key(i)) /\ Heard(z, i, Key(i), Full[i])
    BY <1>6, <2>2, <2>4, <2>5, ReasoningKeyFields, FinalizeHeard
  <2> HIDE DEF z, r
  <2>7. Aside(tr, z, i, Key(i))
    BY <1>6, <2>6, AsideTwice
  <2> QED
    BY <1>1, <1>2, <2>1, <2>6, <2>7 DEF ThoughtStep
<1> QED
  BY <1>8, <1>9

-----------------------------------------------------------------------------
(***************************************************************************)
(* The end of the answer.                                                  *)
(***************************************************************************)
\* Nothing of any item is said or taken back from s to r.
Shut(s, r) ==
  /\ Booked(r) /\ r.mode = s.mode /\ (r.hasTool <=> s.hasTool)
  /\ r.wire.got = s.wire.got /\ s.wire.signed \subseteq r.wire.signed
  /\ s.completed \subseteq r.completed /\ r.thinking = s.thinking
  /\ DOMAIN r.blocks = DOMAIN s.blocks
  /\ \A k \in DOMAIN s.blocks : r.blocks[k].emitted <=> s.blocks[k].emitted

LEMMA StopAllShut ==
  ASSUME NEW s, InOrder(s), s.thinking = Nowhere
  PROVE  LET r == StopAllBlocks(s) IN InOrder(r) /\ Shut(s, r)
<1> DEFINE ks == {k \in DOMAIN s.blocks : ~s.blocks[k].stopped}
           v == BlocksStop(s.wire, {s.blocks[k].index : k \in ks})
           blocks == [k \in DOMAIN s.blocks |-> Stopped(s.blocks[k])]
           f == StopAllBlocks(s)
           r == [s EXCEPT !.wire = v, !.blocks = blocks]
<1>1. f = r
  BY DEF StopAllBlocks
<1>2. Good(f) /\ SameEnds(s, f)
  BY StopAllGood DEF InOrder
<1>3. /\ IsTranslator(s) /\ IsWire(s.wire) /\ s.wire.blocks \in Seq(WireBlock)
      /\ s.next = Len(s.wire.blocks) /\ s.next \in Nat
      /\ \A k \in DOMAIN s.blocks : s.blocks[k] \in Block
  BY DEF InOrder, Good, Counted, Shown
<1>4. /\ v.got = s.wire.got /\ v.signed = s.wire.signed
      /\ \A b \in 1 .. s.next :
           /\ v.blocks[b].kind = s.wire.blocks[b].kind
           /\ v.blocks[b].item = s.wire.blocks[b].item
           /\ s.wire.blocks[b].named => v.blocks[b].named
  BY <1>3, StoppedShown
<1>5. /\ DOMAIN blocks = DOMAIN s.blocks
      /\ \A k \in DOMAIN s.blocks : blocks[k] = Stopped(s.blocks[k])
  OBVIOUS
<1> HIDE DEF v, blocks, f
<1>6. /\ r.wire = v /\ r.next = s.next /\ r.blocks = blocks /\ (r.hasTool <=> s.hasTool)
      /\ r.mode = s.mode /\ r.thinking = s.thinking /\ r.completed = s.completed
  BY <1>3 DEF IsTranslator
<1> HIDE DEF r
<1>7. \A k \in DOMAIN s.blocks :
        /\ r.blocks[k].index = s.blocks[k].index
        /\ r.blocks[k].emitted <=> s.blocks[k].emitted
  <2> SUFFICES ASSUME NEW k \in DOMAIN s.blocks
               PROVE  /\ r.blocks[k].index = s.blocks[k].index
                      /\ r.blocks[k].emitted <=> s.blocks[k].emitted
    OBVIOUS
  <2>1. s.blocks[k] \in Block /\ r.blocks[k] = Stopped(s.blocks[k])
    BY <1>3, <1>5, <1>6
  <2>2. r.blocks[k].index = s.blocks[k].index
    BY <2>1 DEF Stopped, Block
  <2>3. r.blocks[k].emitted = s.blocks[k].emitted
    BY <2>1 DEF Stopped, Block
  <2> QED
    BY <2>2, <2>3
<1>8. Grown(s, r)
  BY <1>3, <1>4, <1>6 DEF Grown
<1>9. Booked(s)
  BY DEF InOrder
<1>10. /\ DOMAIN r.blocks = DOMAIN s.blocks
       /\ \A k \in DOMAIN s.blocks : r.blocks[k].index = s.blocks[k].index
       /\ DOMAIN r.wire.got = Items
       /\ \A x \in r.wire.signed : x[1] = x[2] /\ x[2] \in Signed
       /\ r.mode = "off" => r.wire.signed = {}
  BY <1>4, <1>5, <1>6, <1>7, <1>9 DEF Booked
<1>11. Booked(r)
  BY <1>6, <1>8, <1>9, <1>10, BookedAlike
<1> QED
  BY <1>1, <1>2, <1>4, <1>5, <1>6, <1>7, <1>11 DEF Shut, InOrder, f

LEMMA EndShut ==
  ASSUME NEW s, InOrder(s), NEW how
  PROVE  LET r == [s EXCEPT !.wire = TheEnd(s.wire, how), !.finished = TRUE]
         IN Shut(s, r) /\ r.wire.end = how
<1> DEFINE v == TheEnd(s.wire, how)
           r == [s EXCEPT !.wire = v, !.finished = TRUE]
<1>1. /\ IsTranslator(s) /\ IsWire(s.wire) /\ s.next \in Nat /\ Booked(s)
  BY DEF InOrder, Good, Counted
<1>2. /\ v.got = s.wire.got /\ v.signed = s.wire.signed /\ v.blocks = s.wire.blocks
      /\ v.end = how
  BY <1>1 DEF IsWire, TheEnd
<1> HIDE DEF v
<1>3. /\ r.wire = v /\ r.next = s.next /\ r.blocks = s.blocks /\ (r.hasTool <=> s.hasTool)
      /\ r.mode = s.mode /\ r.thinking = s.thinking /\ r.completed = s.completed
  BY <1>1 DEF IsTranslator
<1> HIDE DEF r
<1>4. Grown(s, r)
  BY <1>1, <1>2, <1>3 DEF Grown
<1>5. /\ DOMAIN r.wire.got = Items
      /\ \A x \in r.wire.signed : x[1] = x[2] /\ x[2] \in Signed
      /\ r.mode = "off" => r.wire.signed = {}
  BY <1>1, <1>2, <1>3 DEF Booked
<1>6. Booked(r)
  BY <1>1, <1>3, <1>4, <1>5, BookedAlike
<1> QED
  BY <1>2, <1>3, <1>6 DEF Shut, r, v

LEMMA ShutTwice ==
  ASSUME NEW s, NEW q, NEW r, Shut(s, q), Shut(q, r)
  PROVE  Shut(s, r)
BY DEF Shut

LEMMA FinishShut ==
  ASSUME NEW s, InOrder(s), s.started, ~s.finished, s.thinking = Nowhere,
         NEW how \in StopReasons
  PROVE  LET r == Finish(s, how) IN Shut(s, r) /\ r.finished /\ r.wire.end = how
<1> DEFINE b == FinalizeThinking(s, TRUE)
           q == StopAllBlocks(b)
           stopReason == IF how # "none" THEN how
                         ELSE IF q.hasTool THEN "tool_use" ELSE "end_turn"
           z == [q EXCEPT !.wire = TheEnd(q.wire, how), !.finished = TRUE]
           r == Finish(s, how)
<1>1. r = z
  <2>1. EnsureStart(s) = s
    BY DEF EnsureStart
  <2>2. r = [q EXCEPT !.wire = TheEnd(q.wire, stopReason), !.finished = TRUE]
    BY <2>1 DEF Finish
  <2>3. stopReason = how
    BY DEF StopReasons
  <2> HIDE DEF stopReason, q, r
  <2> QED
    BY <2>2, <2>3
<1>2. InOrder(b) /\ Shut(s, b) /\ b.thinking = Nowhere
  <2>1. b = s \/ b = [s EXCEPT !.signature = NoItem]
    BY DEF FinalizeThinking
  <2> HIDE DEF b
  <2>2. /\ IsTranslator(b) /\ b.mode = s.mode /\ b.blocks = s.blocks
        /\ b.next = s.next /\ b.wire = s.wire /\ b.thinking = s.thinking
        /\ b.completed = s.completed /\ (b.hasTool <=> s.hasTool) /\ (b.started <=> s.started)
        /\ (b.finished <=> s.finished) /\ b.reasonKey = s.reasonKey
    BY <2>1 DEF InOrder, Good, IsTranslator
  <2>3. b.reasonKey[1] \in Items \cup {NoItem}
    BY <2>2 DEF InOrder, Good, Counted
  <2>4. InOrder(b)
    BY <2>2, <2>3, UnseenAside
  <2> QED
    BY <2>2, <2>4 DEF Shut, InOrder
<1> HIDE DEF b
<1>3. InOrder(q) /\ Shut(b, q)
  BY <1>2, StopAllShut
<1> HIDE DEF q
<1>4. Shut(q, z) /\ z.wire.end = how
  BY <1>3, EndShut
<1>5. r.finished
  BY FinishGood DEF InOrder
<1> HIDE DEF z, r
<1>6. Shut(s, z)
  <2>1. Shut(s, q)
    BY <1>2, <1>3, ShutTwice
  <2> QED
    BY <1>4, <2>1, ShutTwice
<1> QED
  BY <1>1, <1>4, <1>5, <1>6 DEF r

\* An error leaves the books in order, whatever was under way.
LEMMA FailBooked ==
  ASSUME NEW s, InOrder(s), ~s.finished,
         s.mode # "off" /\ s.thinking # Nowhere => \E i \in Reasonings : OfItem(s, i, Key(i))
  PROVE  Booked(Fail(s)) /\ Booked(PipeFailed(s))
<1> DEFINE b == FinalizeThinking(s, TRUE)
           q == StopAllBlocks(b)
           z == [q EXCEPT !.wire = TheEnd(q.wire, "error"), !.finished = TRUE]
           r == Fail(s)
<1>1. r = z
  BY DEF Fail
<1>2. InOrder(b)
  <2>1. CASE s.mode # "off" /\ s.thinking # Nowhere
    <3>1. PICK i \in Reasonings : OfItem(s, i, Key(i))
      BY <2>1
    <3>2. TRUE \in BOOLEAN /\ Key(i)[1] = i
      BY DEF Key
    <3> QED
      BY <2>1, <3>1, <3>2, FinalizeAside
  <2>2. CASE ~(s.mode # "off" /\ s.thinking # Nowhere)
    <3>1. b = s \/ b = [s EXCEPT !.signature = NoItem]
      BY <2>2 DEF FinalizeThinking
    <3> HIDE DEF b
    <3>2. /\ IsTranslator(b) /\ b.mode = s.mode /\ b.blocks = s.blocks
          /\ b.next = s.next /\ b.wire = s.wire /\ b.thinking = s.thinking
          /\ b.completed = s.completed /\ (b.hasTool <=> s.hasTool)
          /\ (b.started <=> s.started) /\ (b.finished <=> s.finished)
          /\ b.reasonKey = s.reasonKey
      BY <3>1 DEF InOrder, Good, IsTranslator
    <3>3. b.reasonKey[1] \in Items \cup {NoItem}
      BY <3>2 DEF InOrder, Good, Counted
    <3> QED
      BY <3>2, <3>3, UnseenAside
  <2> QED
    BY <2>1, <2>2
<1>3. b.thinking = Nowhere
  BY FinalizeGood DEF InOrder
<1> HIDE DEF b
<1>4. InOrder(q)
  BY <1>2, <1>3, StopAllShut
<1> HIDE DEF q
<1>5. Booked(z)
  BY <1>4, EndShut DEF Shut
<1> HIDE DEF z, r
<1>6. CASE s.started
  BY <1>1, <1>5, <1>6 DEF PipeFailed, r
<1>7. CASE ~s.started
  <2> DEFINE v == TheEnd(s.wire, "rejected")
             p == [s EXCEPT !.wire = v]
  <2>1. PipeFailed(s) = p
    BY <1>7 DEF PipeFailed
  <2>2. /\ IsTranslator(s) /\ IsWire(s.wire) /\ s.next \in Nat /\ Booked(s)
    BY DEF InOrder, Good, Counted
  <2>3. /\ v.got = s.wire.got /\ v.signed = s.wire.signed /\ v.blocks = s.wire.blocks
    BY <2>2 DEF IsWire, TheEnd
  <2> HIDE DEF v
  <2>4. /\ p.wire = v /\ p.next = s.next /\ p.blocks = s.blocks /\ (p.hasTool <=> s.hasTool)
        /\ p.mode = s.mode
    BY <2>2 DEF IsTranslator
  <2> HIDE DEF p
  <2>5. Grown(s, p)
    BY <2>2, <2>3, <2>4 DEF Grown
  <2>6. /\ DOMAIN p.wire.got = Items
        /\ \A x \in p.wire.signed : x[1] = x[2] /\ x[2] \in Signed
        /\ p.mode = "off" => p.wire.signed = {}
    BY <2>2, <2>3, <2>4 DEF Booked
  <2>7. Booked(p)
    BY <2>2, <2>4, <2>5, <2>6, BookedAlike
  <2> QED
    BY <1>1, <1>5, <2>1, <2>7 DEF r
<1> QED
  BY <1>6, <1>7

-----------------------------------------------------------------------------
(***************************************************************************)
(* emitFinalOutput.                                                        *)
(***************************************************************************)
\* Item i is delivered by the step from s to r, and the others stay as they are.
Delivers(s, r, i) ==
  /\ Started(r) /\ Booked(r) /\ (r.finished <=> s.finished)
  /\ r.thinking = Nowhere
  /\ r.mode # "off" => r.signature = NoItem
  /\ Delivered(r, i)
  /\ \A j \in Items : j # i => /\ Delivered(s, j) => Delivered(r, j)
                               /\ Waiting(s, j) => Waiting(r, j)

LEMMA ContentDelivers ==
  ASSUME NEW s, Sound(s), s.thinking = Nowhere, s.mode # "off" => s.signature = NoItem,
         NEW r, Sound(r), NEW i \in Messages \cup Calls, OnlyAbout(s, r, i),
         r.finished <=> s.finished, r.wire.got[i] = Full[i],
         NEW k \in DOMAIN r.blocks, k[1] = i, r.blocks[k].emitted
  PROVE  Delivers(s, r, i)
<1>1. i \notin Reasonings /\ i \in Items
  BY ItemsAssumption DEF Items
<1>2. Delivered(r, i)
  BY <1>1 DEF Delivered, Translated
<1>3. /\ SameThoughts(s, r)
      /\ \A j \in Items : j # i => r.wire.got[j] = s.wire.got[j]
      /\ \A x \in Keys : x[1] # i =>
           /\ x \in DOMAIN r.blocks <=> x \in DOMAIN s.blocks
           /\ x \in DOMAIN s.blocks => r.blocks[x] = s.blocks[x]
      /\ DOMAIN s.blocks \subseteq Keys /\ DOMAIN r.blocks \subseteq Keys
  BY DEF OnlyAbout, Sound, Started, Good, Shown
<1>4. ASSUME NEW j \in Items, j # i, Delivered(s, j) PROVE Delivered(r, j)
  <2>1. r.wire.got[j] = s.wire.got[j] /\ r.mode = s.mode /\ r.completed = s.completed
        /\ r.wire.signed = s.wire.signed
    BY <1>3, <1>4 DEF SameThoughts
  <2>2. j \notin Reasonings => \E x \in DOMAIN r.blocks : x[1] = j /\ r.blocks[x].emitted
    <3> SUFFICES ASSUME j \notin Reasonings
                 PROVE  \E x \in DOMAIN r.blocks : x[1] = j /\ r.blocks[x].emitted
      OBVIOUS
    <3>1. PICK x \in DOMAIN s.blocks : x[1] = j /\ s.blocks[x].emitted
      BY <1>4 DEF Delivered
    <3>2. x \in DOMAIN r.blocks /\ r.blocks[x] = s.blocks[x]
      BY <1>3, <1>4, <3>1
    <3> QED
      BY <3>1, <3>2
  <2> QED
    BY <1>4, <2>1, <2>2 DEF Delivered
<1>5. ASSUME NEW j \in Items, j # i, Waiting(s, j) PROVE Waiting(r, j)
  <2>1. r.wire.got[j] = s.wire.got[j] /\ r.mode = s.mode /\ r.completed = s.completed
    BY <1>3, <1>5 DEF SameThoughts
  <2>2. \A x \in DOMAIN r.blocks : x[1] # j
    BY <1>3, <1>5 DEF Waiting
  <2> QED
    BY <1>5, <2>1, <2>2 DEF Waiting
<1> QED
  BY <1>2, <1>3, <1>4, <1>5 DEF Delivers, Sound, SameThoughts

\* The content of item i has come, under key k, or none of it has.
Due(s, k, i) ==
  IF Emitted(s, k) THEN s.wire.got[i] = Full[i]
  ELSE s.wire.got[i] = 0 /\ (k \in DOMAIN s.blocks => ~s.blocks[k].stopped)

\* The item's content has been told under key k from s to r.
Tells(s, r, k, i) ==
  /\ Sound(r) /\ OnlyAbout(s, r, i) /\ (r.finished <=> s.finished)
  /\ r.wire.got[i] = Full[i] /\ k \in DOMAIN r.blocks /\ r.blocks[k].emitted

\* The end of the item's block, behind its content if that has not come.
FinalBlock(s, k, i, named) ==
  StopBlock(IF Emitted(s, k) THEN s ELSE Feed(s, k, Full[i], named), k)

LEMMA FinalContent ==
  ASSUME NEW s, Sound(s), s.thinking = Nowhere, NEW i \in Messages \cup Calls,
         NEW k \in Keys, k[1] = i, NEW named \in BOOLEAN, Opens(s, k, named), Due(s, k, i)
  PROVE  Tells(s, FinalBlock(s, k, i, named), k, i)
<1> DEFINE f == Feed(s, k, Full[i], named)
           q == IF Emitted(s, k) THEN s ELSE f
           r == StopBlock(q, k)
<1>1. Full[i] \in Nat \ {0}
  BY BoundsAssumption DEF Items
<1>2. /\ Sound(q) /\ OnlyAbout(s, q, i) /\ (q.finished <=> s.finished)
      /\ q.wire.got[i] = Full[i] /\ k \in DOMAIN q.blocks /\ q.blocks[k].emitted
  <2>1. CASE Emitted(s, k)
    <3>1. q = s
      BY <2>1
    <3>2. OnlyAbout(s, s, i)
      BY AboutNothing DEF Sound, Started
    <3> HIDE DEF q
    <3> QED
      BY <2>1, <3>1, <3>2 DEF Emitted, Registered, Due
  <2>2. CASE ~Emitted(s, k)
    <3>1. q = f
      BY <2>2
    <3>2. Full[i] # 0 /\ s.wire.got[i] = 0 /\ (k \in DOMAIN s.blocks => ~s.blocks[k].stopped)
      BY <1>1, <2>2 DEF Due
    <3>3. /\ Sound(f) /\ OnlyAbout(s, f, k[1]) /\ (f.finished <=> s.finished)
          /\ f.wire.got[k[1]] = s.wire.got[k[1]] + Full[i]
          /\ DOMAIN f.blocks = DOMAIN s.blocks \cup {k}
          /\ f.blocks[k].emitted
      BY <3>2, FeedAbout
    <3> HIDE DEF f, q
    <3>4. f.wire.got[i] = Full[i]
      BY <1>1, <3>2, <3>3
    <3> QED
      BY <3>1, <3>3, <3>4
  <2> QED
    BY <2>1, <2>2
<1> HIDE DEF q
<1>3. /\ Sound(r) /\ OnlyAbout(q, r, k[1]) /\ (r.finished <=> q.finished)
      /\ r.wire.got = q.wire.got /\ DOMAIN r.blocks = DOMAIN q.blocks
      /\ (k \in DOMAIN q.blocks => (r.blocks[k].emitted <=> q.blocks[k].emitted))
  BY <1>2, StopAbout
<1> HIDE DEF r
<1>4. OnlyAbout(s, r, i)
  BY <1>2, <1>3, AboutTwice
<1> QED
  BY <1>2, <1>3, <1>4 DEF r, q, f, FinalBlock, Tells

LEMMA FinalCallDelivers ==
  ASSUME NEW s, Sound(s), NEW todo, Outstanding(s, todo), NEW i \in Calls
  PROVE  Delivers(s, FinalCall(s, i), i)
<1> DEFINE k == FinalKey(i)
           q == EnsureBlock(s, k, TRUE)
           r == FinalBlock(q, k, i, TRUE)
<1>1. FinalCall(s, i) = r
  BY DEF FinalCall, FinalBlock
<1>2. /\ k = Key(i) /\ k \in Keys /\ k[1] = i /\ i \in Items /\ i \in Messages \cup Calls
      /\ i \notin Messages /\ i \notin Reasonings
  <2>1. i \notin Messages /\ i \notin Reasonings
    BY ItemsAssumption
  <2>2. i \notin Anonymous
    BY <2>1, ItemsAssumption
  <2>3. (i \in Anonymous) = FALSE
    BY <2>2
  <2>4. k = Key(i)
    BY <2>3, Zenon DEF FinalKey, Key
  <2> QED
    BY <2>1, <2>4, KeyOf
<1> HIDE DEF k
<1>3. Full[i] \in Nat \ {0}
  BY <1>2, BoundsAssumption
<1>4. Opens(s, k, TRUE)
  BY <1>2 DEF Opens, Sound, Booked
<1>5. IF Emitted(s, k) THEN s.wire.got[i] = Full[i]
      ELSE s.wire.got[i] = 0 /\ k \notin DOMAIN s.blocks
  <2>1. CASE Delivered(s, i)
    <3>1. PICK x \in DOMAIN s.blocks : x[1] = i /\ s.blocks[x].emitted
      BY <1>2, <2>1 DEF Delivered
    <3>2. x = k
      BY <1>2, <3>1 DEF Sound, Booked
    <3>3. s.wire.got[i] = Full[i]
      BY <1>2, <2>1 DEF Delivered, Translated
    <3> QED
      BY <3>1, <3>2, <3>3 DEF Emitted, Registered
  <2>2. CASE Waiting(s, i)
    <3>1. k \notin DOMAIN s.blocks /\ s.wire.got[i] = 0
      BY <1>2, <2>2 DEF Waiting
    <3> QED
      BY <3>1 DEF Emitted, Registered
  <2> QED
    BY <1>2, <2>1, <2>2 DEF Outstanding
<1>6. s.thinking = Nowhere /\ (s.mode # "off" => s.signature = NoItem) /\ TRUE \in BOOLEAN
  BY DEF Outstanding
<1>7. /\ Sound(q) /\ OnlyAbout(s, q, k[1]) /\ (q.finished <=> s.finished)
      /\ q.wire.got = s.wire.got
      /\ DOMAIN q.blocks = DOMAIN s.blocks \cup {k}
      /\ k \in DOMAIN s.blocks => q = s
      /\ k \notin DOMAIN s.blocks => ~q.blocks[k].emitted /\ ~q.blocks[k].stopped
  BY <1>2, <1>4, <1>6, EnsureBlockAbout
<1> HIDE DEF q
<1>8. Opens(q, k, TRUE)
  BY <1>2, <1>7 DEF Opens
<1>9. Due(q, k, i)
  <2>1. CASE k \in DOMAIN s.blocks
    <3>1. q = s
      BY <1>7, <2>1
    <3>2. Due(s, k, i)
      BY <1>5, <2>1 DEF Due
    <3> QED
      BY <3>1, <3>2
  <2>2. CASE k \notin DOMAIN s.blocks
    BY <1>5, <1>7, <2>2 DEF Emitted, Registered, Due
  <2> QED
    BY <2>1, <2>2
<1>10. q.thinking = Nowhere
  BY <1>6, <1>7 DEF OnlyAbout, SameThoughts
<1>11. Tells(q, r, k, i)
  <2>1. i \in Messages \cup Calls /\ k \in Keys /\ k[1] = i /\ Sound(q) /\ q.thinking = Nowhere
    BY <1>2, <1>7, <1>10
  <2>2. \A named \in BOOLEAN :
          Opens(q, k, named) /\ Due(q, k, i) => Tells(q, FinalBlock(q, k, i, named), k, i)
    BY <2>1, FinalContent
  <2> QED
    BY <1>6, <1>8, <1>9, <2>2
<1> HIDE DEF r
<1>12. OnlyAbout(s, r, i)
  BY <1>2, <1>7, <1>11, AboutTwice DEF Tells
<1>13. r.finished <=> s.finished
  BY <1>7, <1>11 DEF Tells
<1>14. Delivers(s, r, i)
  BY <1>2, <1>6, <1>11, <1>12, <1>13, ContentDelivers DEF Tells
<1> QED
  BY <1>1, <1>14

LEMMA FinalMessageDelivers ==
  ASSUME NEW s, Sound(s), NEW todo, Outstanding(s, todo), NEW i \in Messages
  PROVE  Delivers(s, FinalMessage(s, i), i)
<1> DEFINE k == FinalKey(i)
           r == FinalBlock(s, k, i, FALSE)
           f == FinalMessage(s, i)
<1>1. /\ i \in Messages \cup Calls /\ i \in Items /\ i \notin Calls /\ i \notin Reasonings
      /\ k \in Keys /\ k[1] = i
  BY ItemsAssumption, KeysOf DEF FinalKey, Items
<1>2. s.thinking = Nowhere /\ (s.mode # "off" => s.signature = NoItem) /\ FALSE \in BOOLEAN
  BY DEF Outstanding
<1>3. f = IF ~Registered(s, k) /\ HasEmittedText(s) THEN s ELSE r
  BY DEF FinalMessage, FinalBlock
<1> HIDE DEF k, f
<1>4. CASE Delivered(s, i)
  <2>1. PICK x \in DOMAIN s.blocks : x[1] = i /\ s.blocks[x].emitted
    BY <1>1, <1>4 DEF Delivered
  <2>2. s.wire.got[i] = Full[i]
    BY <1>1, <1>4 DEF Delivered, Translated
  <2>3. CASE x = k
    <3>1. f = r /\ Emitted(s, k)
      BY <1>3, <2>1, <2>3 DEF Emitted, Registered
    <3>2. Opens(s, k, FALSE)
      BY <1>1, <2>1, <2>3 DEF Opens
    <3>3. Due(s, k, i)
      BY <2>2, <3>1 DEF Due
    <3>4. Tells(s, r, k, i)
      <4>1. \A named \in BOOLEAN :
              Opens(s, k, named) /\ Due(s, k, i) => Tells(s, FinalBlock(s, k, i, named), k, i)
        BY <1>1, <1>2, FinalContent
      <4> QED
        BY <1>2, <3>2, <3>3, <4>1
    <3> HIDE DEF r
    <3>5. Delivers(s, r, i)
      BY <1>1, <1>2, <3>4, ContentDelivers DEF Tells
    <3> QED
      BY <3>1, <3>5 DEF f
  <2>4. CASE x # k
    <3>1. ~Registered(s, k)
      BY <1>1, <2>1, <2>4 DEF Sound, Booked, Registered
    <3>2. HasEmittedText(s)
      BY <1>1, <2>1 DEF HasEmittedText, Emitted, Registered, KindOf
    <3>3. f = s
      BY <1>3, <3>1, <3>2
    <3>4. OnlyAbout(s, s, i)
      BY AboutNothing DEF Sound, Started
    <3>5. Delivers(s, s, i)
      BY <1>1, <1>2, <2>1, <2>2, <3>4, ContentDelivers
    <3> QED
      BY <3>3, <3>5 DEF f
  <2> QED
    BY <2>3, <2>4
<1>5. CASE Waiting(s, i)
  <2>1. /\ s.wire.got[i] = 0 /\ (\A x \in DOMAIN s.blocks : x[1] # i) /\ Messages = {i}
    BY <1>5 DEF Waiting
  <2>2. ~HasEmittedText(s)
    <3>1. ASSUME NEW x \in DOMAIN s.blocks, KindOf(x) = "text" PROVE FALSE
      <4>1. x \in Keys
        BY DEF Sound, Started, Good, Shown
      <4>2. x[1] \in Messages \cup Calls
        BY <4>1 DEF Keys
      <4>3. x[1] \notin Calls
        BY <3>1 DEF KindOf
      <4> QED
        BY <2>1, <4>2, <4>3
    <3> QED
      BY <3>1 DEF HasEmittedText
  <2>3. f = r
    BY <1>3, <2>2
  <2>4. k \notin DOMAIN s.blocks /\ ~Emitted(s, k)
    BY <1>1, <2>1 DEF Emitted, Registered
  <2>5. Opens(s, k, FALSE)
    BY <1>1, <2>1 DEF Opens
  <2>6. Due(s, k, i)
    BY <2>1, <2>4 DEF Due
  <2>7. Tells(s, r, k, i)
    <3>1. \A named \in BOOLEAN :
            Opens(s, k, named) /\ Due(s, k, i) => Tells(s, FinalBlock(s, k, i, named), k, i)
      BY <1>1, <1>2, FinalContent
    <3> QED
      BY <1>2, <2>5, <2>6, <3>1
  <2> HIDE DEF r
  <2>8. Delivers(s, r, i)
    BY <1>1, <1>2, <2>7, ContentDelivers DEF Tells
  <2> QED
    BY <2>3, <2>8 DEF f
<1> QED
  BY <1>1, <1>4, <1>5 DEF Outstanding

\* Whether the item's events have told it or not, the client has all of it behind
\* emitFinalReasoning, once or, under another key, twice.
LEMMA FinalReasoningDelivers ==
  ASSUME NEW s, Sound(s), NEW todo, Outstanding(s, todo), NEW i \in Reasonings
  PROVE  Delivers(s, EmitFinalReasoning(s, FinalKey(i), Full[i], i \in Signed), i)
<1>1. PICK sig \in BOOLEAN : sig = (i \in Signed)
  <2>1. (i \in Signed) \in BOOLEAN
    OBVIOUS
  <2> QED
    BY <2>1, Zenon
<1> DEFINE k == FinalKey(i)
           f == EmitFinalReasoning(s, k, Full[i], i \in Signed)
           r == EmitFinalReasoning(s, k, Full[i], sig)
<1>2. f = r
  BY <1>1
<1>3. /\ s.thinking = Nowhere /\ (s.mode # "off" => s.signature = NoItem) /\ InOrder(s)
      /\ i \in Items /\ i # NoItem /\ s.started
      /\ Delivered(s, i) \/ Waiting(s, i)
  BY ItemsAssumption DEF Outstanding, Sound, Started, InOrder, Items
<1>4. /\ k[1] = i
      /\ i \notin Anonymous => k = Key(i)
      /\ \A j : j # i => Key(j) # k /\ FinalKey(j) # k
  <2>1. k[1] = i /\ \A j : Key(j)[1] = j /\ FinalKey(j)[1] = j
    BY DEF Key, FinalKey
  <2>2. ASSUME i \notin Anonymous PROVE k = Key(i)
    <3>1. (i \in Anonymous) = FALSE
      BY <2>2
    <3> QED
      BY <3>1, Zenon DEF FinalKey, Key
  <2> QED
    BY <2>1, <2>2
<1>5. Full[i] \in Nat \ {0}
  BY <1>3, BoundsAssumption
<1> HIDE DEF f
<1>6. CASE s.mode # "off" /\ k \notin s.completed
  <2> DEFINE p == IF Waiting(s, i) THEN 0 ELSE Full[i]
  <2>1. p \in Nat
    BY <1>5
  <2>2. s.wire.got[i] = IF s.mode = "summarized" THEN p ELSE 0
    BY <1>3, <1>6 DEF Waiting, Delivered, Translated
  <2>3. p = 0 \/ (p = Full[i] /\ Delivered(s, i))
    BY <1>3
  <2> HIDE DEF p
  <2>4. FALSE \in BOOLEAN /\ (sig \/ FALSE <=> i \in Signed)
    BY <1>1
  <2>5. Minded(s, i, k, p, FALSE, FALSE)
    BY <1>3, <1>6, <2>2 DEF Minded, OfItem
  <2> HIDE DEF k
  <2>6. InOrder(r) /\ Aside(s, r, i, k) /\ Heard(r, i, k, p + Full[i])
    BY <1>3, <1>4, <2>1, <2>4, <2>5, EmitHeard
  <2> HIDE DEF r
  <2>7. /\ r.mode = s.mode /\ r.blocks = s.blocks /\ (r.finished <=> s.finished) /\ r.started
        /\ \A j \in Items : j # i => r.wire.got[j] = s.wire.got[j]
        /\ \A l : l # k => (l \in r.completed <=> l \in s.completed)
        /\ s.completed \subseteq r.completed
        /\ s.wire.signed \subseteq r.wire.signed
    BY <1>3, <2>6 DEF Aside
  <2>8. /\ r.wire.got[i] = IF s.mode = "summarized" THEN p + Full[i] ELSE 0
        /\ k \in r.completed \/ (s.mode = "omitted" /\ i \notin Signed)
        /\ i \in Signed => <<i, i>> \in r.wire.signed
        /\ r.thinking = Nowhere /\ r.signature = NoItem
    BY <1>6, <2>6, <2>7 DEF Heard
  <2>9. Delivered(r, i)
    <3>1. \/ r.wire.got[i] = Translated(r.mode, i)
          \/ /\ i \in Anonymous \cap Reasonings /\ k \in r.completed
             /\ r.wire.got[i] = 2 * Translated(r.mode, i)
      <4>1. CASE s.mode # "summarized"
        BY <2>7, <2>8, <4>1 DEF Translated
      <4>2. CASE s.mode = "summarized" /\ p = 0
        BY <1>5, <2>7, <2>8, <4>2 DEF Translated
      <4>3. CASE s.mode = "summarized" /\ p = Full[i] /\ Delivered(s, i)
        <5>1. i \in Anonymous
          BY <1>4, <1>6, <4>3 DEF Delivered, k
        <5>2. k \in r.completed
          BY <2>8, <4>3
        <5>3. Translated(r.mode, i) = Full[i] /\ r.wire.got[i] = Full[i] + Full[i]
          BY <2>7, <2>8, <4>3 DEF Translated
        <5>4. r.wire.got[i] = 2 * Translated(r.mode, i)
          BY <1>5, <5>3
        <5> QED
          BY <5>1, <5>2, <5>4
      <4> QED
        BY <2>3, <4>1, <4>2, <4>3
    <3> QED
      BY <2>7, <2>8, <3>1 DEF Delivered, k
  <2>10. ASSUME NEW j \in Items, j # i
         PROVE  /\ Delivered(s, j) => Delivered(r, j)
                /\ Waiting(s, j) => Waiting(r, j)
    <3>1. /\ Key(j) \in r.completed <=> Key(j) \in s.completed
          /\ FinalKey(j) \in r.completed <=> FinalKey(j) \in s.completed
      BY <1>4, <2>7, <2>10
    <3> QED
      BY <2>7, <2>10, <3>1 DEF Delivered, Waiting
  <2>11. Delivers(s, r, i)
    BY <2>6, <2>7, <2>8, <2>9, <2>10 DEF Delivers, InOrder, Started
  <2> QED
    BY <1>2, <2>11 DEF f, k
<1>7. CASE s.mode = "off" \/ k \in s.completed
  <2>1. r = s
    BY <1>7 DEF EmitFinalReasoning
  <2> HIDE DEF r
  <2>2. Delivered(s, i)
    BY <1>3, <1>7 DEF Delivered, Waiting, Translated
  <2>3. Delivers(s, s, i)
    BY <1>3, <2>2 DEF Delivers, Sound
  <2> QED
    BY <1>2, <2>1, <2>3 DEF f
<1> QED
  BY <1>6, <1>7

-----------------------------------------------------------------------------
(***************************************************************************)
(* The terminal event and emitFinalOutput.                                 *)
(***************************************************************************)
LEMMA ReadsAlike ==
  ASSUME Good(tr), InReading, sent' = sent, SameThoughts(tr, tr'), tr'.blocks = tr.blocks,
         tr'.wire.got = tr.wire.got, Grown(tr, tr')
  PROVE  InReading'
<1>1. tr.thinking # Nowhere => tr'.wire.blocks[tr.thinking].item = tr.wire.blocks[tr.thinking].item
  BY DEF Good, Thinks, Counted, Grown, Nowhere
<1>2. /\ tr'.mode = tr.mode /\ tr'.thinking = tr.thinking /\ tr'.signature = tr.signature
      /\ tr'.reasonKey = tr.reasonKey /\ tr'.completed = tr.completed
      /\ tr'.wire.signed = tr.wire.signed
  BY DEF SameThoughts
<1>3. \A i \in Messages \cup Calls : ContentKnown(i)'
  BY DEF InReading, ContentKnown, Emitted, Registered
<1>4. OpenReasoning' = OpenReasoning
  BY DEF OpenReasoning
<1>5. \A i \in Reasonings : ThoughtKnown(i)'
  BY <1>2, <1>4 DEF InReading, ThoughtKnown, Begun
<1>6. InHand'
  BY <1>1, <1>2, <1>4 DEF InReading, InHand, Begun
<1> QED
  BY <1>3, <1>5, <1>6 DEF InReading

LEMMA CreatedReads ==
  ASSUME orderly, Good(tr), Booked(tr), InReading, NEW ev \in Events, Sends(ev), Created(ev)
  PROVE  Booked(tr') /\ InReading'
<1>1. ev.item \notin Items /\ tr' = EnsureStart(tr)
  BY EndEventsBare DEF Created, Becomes
<1>2. sent' = sent
  BY <1>1 DEF Sends
<1>3. /\ Sound(tr') /\ OnlyAbout(tr, tr', NoItem) /\ tr'.blocks = tr.blocks
      /\ tr'.wire.got = tr.wire.got
  BY <1>1, EnsureStartAbout
<1> QED
  BY <1>2, <1>3, ReadsAlike DEF OnlyAbout, Sound

\* What is closed has been delivered.
LEMMA ClosedDelivered ==
  ASSUME UpstreamTyped, UpstreamKnows, InReading, NEW i \in Items, sent[i].closed
  PROVE  Delivered(tr, i)
<1>1. sent[i].parts = Full[i] /\ Full[i] \in Nat \ {0}
  BY BoundsAssumption DEF UpstreamKnows
<1>2. CASE i \in Messages \cup Calls
  <2>1. i \notin Reasonings
    BY <1>2, ItemsAssumption
  <2>2. tr.wire.got[i] = sent[i].parts /\ (Emitted(tr, Key(i)) <=> sent[i].parts > 0)
    BY <1>2 DEF InReading, ContentKnown
  <2>3. Emitted(tr, Key(i))
    BY <1>1, <2>2
  <2>4. Key(i)[1] = i
    BY <1>2, KeyOf
  <2> QED
    BY <1>1, <2>1, <2>2, <2>3, <2>4 DEF Delivered, Translated, Emitted, Registered
<1>3. CASE i \in Reasonings
  <2>1. sent[i].done /\ ThoughtKnown(i)
    BY <1>3 DEF InReading, UpstreamKnows
  <2> QED
    BY <1>1, <1>3, <2>1 DEF Delivered, Translated, ThoughtKnown
<1> QED
  BY <1>2, <1>3 DEF Items

\* What is untouched is as unknown to the client.
LEMMA UntouchedWaits ==
  ASSUME UpstreamTyped, Good(tr), InReading, tr.mode # "off" => tr.thinking = Nowhere,
         NEW i \in Items, sent[i] = Untouched, i \in Messages => Messages = {i}
  PROVE  Waiting(tr, i)
<1>1. sent[i].parts = 0 /\ ~sent[i].done
  BY DEF Untouched
<1>2. DOMAIN tr.blocks \subseteq Keys
  BY DEF Good, Shown
<1>3. CASE i \in Messages \cup Calls
  <2>1. ContentKnown(i)
    BY <1>3 DEF InReading
  <2>2. tr.wire.got[i] = 0
    BY <1>1, <2>1 DEF ContentKnown
  <2>3. Key(i) \notin DOMAIN tr.blocks /\ <<i, TRUE>> \notin DOMAIN tr.blocks
    BY <2>1 DEF ContentKnown, Registered
  <2>4. \A k \in DOMAIN tr.blocks : k[1] # i
    BY <1>2, <2>3, KeysOfItem
  <2>5. i \notin Reasonings
    BY <1>3, ItemsAssumption
  <2> QED
    BY <2>2, <2>4, <2>5 DEF Waiting
<1>4. CASE i \in Reasonings
  <2>1. ThoughtKnown(i)
    BY <1>4 DEF InReading
  <2>2. tr.wire.got[i] = 0
    BY <1>1, <2>1 DEF ThoughtKnown
  <2>3. i \notin Messages /\ i \notin Calls
    BY <1>4, ItemsAssumption
  <2>4. \A k \in Keys : k[1] \in Messages \cup Calls
    BY DEF Keys
  <2>5. \A k \in DOMAIN tr.blocks : k[1] # i
    BY <1>2, <2>3, <2>4
  <2>6. tr.mode # "off" => Key(i) \notin tr.completed /\ FinalKey(i) \notin tr.completed
    <3>1. tr.mode # "off" => Key(i) \notin tr.completed
      BY <1>1, <2>1 DEF ThoughtKnown
    <3>2. CASE i \in Anonymous
      BY <2>1, <3>1, <3>2 DEF ThoughtKnown
    <3>3. CASE i \notin Anonymous
      <4>1. (i \in Anonymous) = FALSE
        BY <3>3
      <4>2. FinalKey(i) = Key(i)
        BY <4>1, Zenon DEF FinalKey, Key
      <4> QED
        BY <3>1, <4>2
    <3> QED
      BY <3>2, <3>3
  <2> QED
    BY <2>2, <2>3, <2>5, <2>6 DEF Waiting
<1> QED
  BY <1>3, <1>4 DEF Items

LEMMA DeliveredAlike ==
  ASSUME NEW s, NEW r, OnlyAbout(s, r, NoItem), r.blocks = s.blocks, r.wire.got = s.wire.got,
         NEW i
  PROVE  /\ Delivered(s, i) => Delivered(r, i)
         /\ Waiting(s, i) => Waiting(r, i)
BY DEF OnlyAbout, SameThoughts, Delivered, Waiting

LEMMA CompletedLeaves ==
  ASSUME orderly, UpstreamTyped, UpstreamKnows, Good(tr), Booked(tr), InReading,
         NEW ev \in Events, Sends(ev), Completed(ev)
  PROVE  /\ sent' = sent /\ Booked(tr') /\ Outstanding(tr', rest')
         /\ reason' \in {"end_turn", "max_tokens"}
<1>1. /\ ev.type \in {"completed", "incomplete"} /\ tr' = EnsureStart(tr)
      /\ rest' = IF ev.n = 1 THEN Output ELSE <<>>
      /\ reason' \in {"end_turn", "max_tokens"}
  BY DEF Completed
<1>2. MaySendVerdict(ev)
  BY <1>1 DEF Sends, MaySend
<1>3. sent' = sent
  <2>1. ev.item \notin Items
    BY <1>1, EndEventsBare
  <2> QED
    BY <2>1 DEF Sends
<1>4. tr.thinking = Nowhere /\ (tr.mode # "off" => tr.signature = NoItem)
  <2>1. OpenReasoning = {}
    BY <1>2 DEF MaySendVerdict
  <2>2. CASE tr.mode = "off"
    BY <2>2 DEF Good, Thinks
  <2>3. CASE tr.mode # "off"
    BY <2>1, <2>3 DEF InReading, InHand
  <2> QED
    BY <2>2, <2>3
<1>5. /\ Sound(tr') /\ OnlyAbout(tr, tr', NoItem) /\ tr'.blocks = tr.blocks
      /\ tr'.wire.got = tr.wire.got
  BY <1>1, EnsureStartAbout
<1>6. ASSUME NEW i \in Items
      PROVE  Delivered(tr, i) \/ (Waiting(tr, i) /\ \E n \in DOMAIN rest' : rest'[n] = i)
  <2>1. CASE sent[i].closed
    BY <2>1, ClosedDelivered
  <2>2. CASE sent[i] = Untouched
    <3>1. sent[i].parts = 0 /\ Full[i] # 0
      BY <2>2, BoundsAssumption DEF Untouched
    <3>2. ~Conveyed(i)
      BY <3>1 DEF Conveyed
    <3>3. i \in Messages => Messages = {i}
      BY <1>2, <3>2 DEF MaySendVerdict
    <3>4. Waiting(tr, i)
      BY <1>4, <2>2, <3>3, UntouchedWaits
    <3>5. ev.n = 1 /\ \E n \in DOMAIN Output : Output[n] = i
      BY <1>2, <3>2 DEF MaySendVerdict
    <3> QED
      BY <1>1, <3>4, <3>5
  <2> QED
    BY <1>2, <2>1, <2>2 DEF MaySendVerdict
<1>7. \A i \in Items :
        Delivered(tr', i) \/ (Waiting(tr', i) /\ \E n \in DOMAIN rest' : rest'[n] = i)
  BY <1>5, <1>6, DeliveredAlike
<1>8. tr'.thinking = Nowhere /\ (tr'.mode # "off" => tr'.signature = NoItem)
  BY <1>4, <1>5 DEF OnlyAbout, SameThoughts
<1> QED
  BY <1>1, <1>3, <1>5, <1>7, <1>8 DEF Outstanding, Sound

LEMMA FewerOutstanding ==
  ASSUME NEW todo \in Seq(Items), todo # <<>>, NEW s, Outstanding(s, todo), NEW r,
         Delivers(s, r, Head(todo))
  PROVE  Outstanding(r, Tail(todo))
<1>1. r.thinking = Nowhere /\ (r.mode # "off" => r.signature = NoItem)
  BY DEF Delivers
<1>2. ASSUME NEW j \in Items
      PROVE  \/ Delivered(r, j)
             \/ Waiting(r, j) /\ \E n \in DOMAIN Tail(todo) : Tail(todo)[n] = j
  <2>1. CASE j = Head(todo)
    BY <2>1 DEF Delivers
  <2>2. CASE j # Head(todo) /\ Delivered(s, j)
    BY <2>2 DEF Delivers
  <2>3. CASE j # Head(todo) /\ Waiting(s, j) /\ \E n \in DOMAIN todo : todo[n] = j
    <3>1. PICK n \in DOMAIN todo : todo[n] = j
      BY <2>3
    <3>2. n \in 1 .. Len(todo) /\ n # 1
      BY <2>3, <3>1
    <3>3. n - 1 \in DOMAIN Tail(todo) /\ Tail(todo)[n - 1] = j
      BY <3>1, <3>2
    <3>4. Waiting(r, j)
      BY <2>3 DEF Delivers
    <3> QED
      BY <3>3, <3>4
  <2> QED
    BY <2>1, <2>2, <2>3 DEF Outstanding
<1> QED
  BY <1>1, <1>2 DEF Outstanding

LEMMA FinalItemDelivers ==
  ASSUME Sound(tr), Outstanding(tr, rest), rest \in Seq(Items), FinalItem
  PROVE  Booked(tr') /\ Outstanding(tr', rest')
<1> DEFINE i == Head(rest)
<1>1. rest # <<>> /\ rest' = Tail(rest) /\ i \in Items
  BY DEF FinalItem
<1>2. tr' = IF i \in Reasonings THEN EmitFinalReasoning(tr, FinalKey(i), Full[i], i \in Signed)
            ELSE IF i \in Calls THEN FinalCall(tr, i)
            ELSE FinalMessage(tr, i)
  BY Zenon DEF FinalItem
<1> HIDE DEF i
<1>3. Delivers(tr, tr', i)
  <2>1. CASE i \in Reasonings
    <3>1. tr' = EmitFinalReasoning(tr, FinalKey(i), Full[i], i \in Signed)
      BY <1>2, <2>1, Zenon
    <3>2. Delivers(tr, EmitFinalReasoning(tr, FinalKey(i), Full[i], i \in Signed), i)
      BY <2>1, FinalReasoningDelivers, Zenon
    <3> QED
      BY <3>1, <3>2, Zenon
  <2>2. CASE i \in Calls
    <3>1. i \notin Reasonings
      BY <2>2, ItemsAssumption
    <3>2. tr' = FinalCall(tr, i)
      BY <1>2, <2>2, <3>1, Zenon
    <3>3. Delivers(tr, FinalCall(tr, i), i)
      BY <2>2, FinalCallDelivers
    <3> QED
      BY <3>2, <3>3
  <2>3. CASE i \in Messages
    <3>1. i \notin Reasonings /\ i \notin Calls
      BY <2>3, ItemsAssumption
    <3>2. tr' = FinalMessage(tr, i)
      BY <1>2, <3>1, Zenon
    <3>3. Delivers(tr, FinalMessage(tr, i), i)
      BY <2>3, FinalMessageDelivers
    <3> QED
      BY <3>2, <3>3
  <2> QED
    BY <1>1, <2>1, <2>2, <2>3 DEF Items
<1>4. Outstanding(tr', Tail(rest))
  BY <1>1, <1>3, FewerOutstanding DEF i
<1> QED
  BY <1>1, <1>3, <1>4 DEF Delivers

LEMMA FinishEnds ==
  ASSUME Sound(tr), ~tr.finished, Outstanding(tr, rest), reason \in {"end_turn", "max_tokens"},
         FinishCompleted
  PROVE  Booked(tr') /\ tr'.finished /\ Ended'
<1> DEFINE how == IF tr.hasTool THEN "tool_use" ELSE reason
<1>1. rest = <<>> /\ tr' = Finish(tr, how) /\ reason' = reason
  BY DEF FinishCompleted
<1>2. how \in StopReasons
  BY DEF StopReasons
<1>3. tr.thinking = Nowhere /\ InOrder(tr) /\ tr.started
  BY DEF Outstanding, Sound, Started, InOrder
<1>4. \A i \in Items : Delivered(tr, i)
  BY <1>1 DEF Outstanding
<1>5. tr.hasTool <=> Calls # {}
  <2>1. tr.hasTool <=> \E k \in DOMAIN tr.blocks : KindOf(k) = "tool"
    BY DEF Sound, Booked
  <2>2. ASSUME NEW i \in Calls PROVE \E k \in DOMAIN tr.blocks : KindOf(k) = "tool"
    <3>1. i \in Items /\ i \notin Reasonings
      BY ItemsAssumption DEF Items
    <3>2. \E k \in DOMAIN tr.blocks : k[1] = i
      BY <1>4, <3>1 DEF Delivered
    <3> QED
      BY <3>2 DEF KindOf
  <2>3. ASSUME NEW k \in DOMAIN tr.blocks, KindOf(k) = "tool" PROVE Calls # {}
    BY <2>3 DEF KindOf
  <2> QED
    BY <2>1, <2>2, <2>3
<1>6. \A said \in Plain(reason = "max_tokens") :
        how = TranslatedReason(reason = "max_tokens", said)
  BY <1>5 DEF Plain, TranslatedReason, CutShort, Regular, Special
<1> HIDE DEF how
<1>7. Shut(tr, tr') /\ tr'.finished /\ tr'.wire.end = how
  BY <1>1, <1>2, <1>3, FinishShut
<1>8. ASSUME NEW i \in Items PROVE Delivered(tr', i)
  <2>1. /\ tr'.mode = tr.mode /\ tr'.wire.got = tr.wire.got
        /\ tr.wire.signed \subseteq tr'.wire.signed /\ tr.completed \subseteq tr'.completed
        /\ DOMAIN tr'.blocks = DOMAIN tr.blocks
        /\ \A k \in DOMAIN tr.blocks : tr'.blocks[k].emitted <=> tr.blocks[k].emitted
    BY <1>7 DEF Shut
  <2>2. i \notin Reasonings => \E k \in DOMAIN tr'.blocks : k[1] = i /\ tr'.blocks[k].emitted
    BY <1>4, <2>1 DEF Delivered
  <2> QED
    BY <1>4, <2>1, <2>2 DEF Delivered
<1>9. DOMAIN tr'.wire.blocks = 1 .. tr'.next
  <2>1. how \in StopReasons \cup {"none"}
    BY <1>2
  <2>2. Good(tr')
    BY <1>1, <1>3, <2>1, FinishGood DEF InOrder
  <2> QED
    BY <2>2 DEF Good, Counted
<1> QED
  BY <1>1, <1>6, <1>7, <1>8, <1>9 DEF Ended, Shut

-----------------------------------------------------------------------------
(***************************************************************************)
(* The invariant is kept, and it says what AnswerComplete asks for.        *)
(***************************************************************************)
\* The disjuncts of a step that reads one item's event.
ContentEvent(ev) ==
  \/ TextDelta(ev) \/ ArgumentsDelta(ev) \/ ContentPartAdded(ev) \/ ContentPartDone(ev)
  \/ MessageAdded(ev) \/ MessageDone(ev) \/ CallAdded(ev) \/ CallDone(ev)

ThoughtEvent(ev) ==
  \/ ReasoningPartAdded(ev) \/ ReasoningDelta(ev) \/ ReasoningPartDone(ev)
  \/ ReasoningAdded(ev) \/ ReasoningDone(ev)

LEMMA ContentEventReads ==
  ASSUME orderly, UpstreamTyped, UpstreamKnows, Good(tr), Booked(tr), InReading,
         NEW ev \in Events, Sends(ev), ContentEvent(ev)
  PROVE  Booked(tr') /\ InReading'
<1>1. ev.item \in Messages \cup Calls
  BY EventItems DEF ContentEvent, TextDelta, ArgumentsDelta, ContentPartAdded, ContentPartDone,
                    MessageAdded, MessageDone, CallAdded, CallDone
<1>2. ContentStep(ev.item)
  <2>1. CASE TextDelta(ev) \/ ArgumentsDelta(ev)
    BY <2>1, DeltaStep
  <2>2. CASE ContentPartAdded(ev)
    BY <2>2, PartAddedStep
  <2>3. CASE ContentPartDone(ev) \/ MessageDone(ev)
    BY <2>3, ContentDoneStep
  <2>4. CASE MessageAdded(ev)
    BY <2>4, MessageAddedStep
  <2>5. CASE CallAdded(ev)
    BY <2>5, CallAddedStep
  <2>6. CASE CallDone(ev)
    BY <2>6, CallDoneStep
  <2> QED
    BY <2>1, <2>2, <2>3, <2>4, <2>5, <2>6 DEF ContentEvent
<1> QED
  BY <1>1, <1>2, ContentStepReads

LEMMA ThoughtEventReads ==
  ASSUME orderly, UpstreamTyped, UpstreamKnows, Good(tr), Booked(tr), InReading,
         NEW ev \in Events, Sends(ev), ThoughtEvent(ev)
  PROVE  Booked(tr') /\ InReading'
<1>1. ev.item \in Reasonings
  BY EventItems DEF ThoughtEvent, ReasoningPartAdded, ReasoningDelta, ReasoningPartDone,
                    ReasoningAdded, ReasoningDone
<1>2. ThoughtStep(ev.item)
  <2>1. CASE ReasoningPartAdded(ev)
    BY <1>1, <2>1, ReasoningPartAddedStep
  <2>2. CASE ReasoningDelta(ev)
    BY <1>1, <2>2, ReasoningDeltaStep
  <2>3. CASE ReasoningPartDone(ev)
    BY <1>1, <2>3, ReasoningPartDoneStep
  <2>4. CASE ReasoningAdded(ev)
    BY <1>1, <2>4, ReasoningAddedStep
  <2>5. CASE ReasoningDone(ev)
    BY <1>1, <2>5, ReasoningDoneStep
  <2> QED
    BY <2>1, <2>2, <2>3, <2>4, <2>5 DEF ThoughtEvent
<1> QED
  BY <1>1, <1>2, ThoughtStepReads

\* An error finds a thinking block and a signature of one item in hand.
LEMMA ErrorBooked ==
  ASSUME UpstreamKnows, Good(tr), Booked(tr), InReading, ~tr.finished
  PROVE  Booked(Fail(tr)) /\ Booked(PipeFailed(tr))
<1>1. ASSUME tr.mode # "off", tr.thinking # Nowhere
      PROVE  \E i \in Reasonings : OfItem(tr, i, Key(i))
  <2>1. PICK i \in OpenReasoning :
          /\ tr.reasonKey = Key(i) /\ tr.wire.blocks[tr.thinking].item = i
          /\ tr.signature # NoItem => tr.signature \in OpenReasoning \cap Signed
    BY <1>1 DEF InReading, InHand
  <2>2. tr.signature # NoItem => tr.signature = i
    BY <2>1 DEF UpstreamKnows
  <2>3. i \in Reasonings
    BY <2>1 DEF OpenReasoning
  <2>4. OfItem(tr, i, Key(i))
    BY <2>1, <2>2 DEF OfItem
  <2> QED
    BY <2>3, <2>4
<1>2. InOrder(tr)
  BY DEF InOrder
<1> QED
  BY <1>1, <1>2, FailBooked

LEMMA CompleteEvent ==
  ASSUME HonestInv, StreamsTyped, CompleteInv, orderly, endpoint = "messages",
         NEW ev \in Events, Process(ev), Sends(ev), UNCHANGED endpoint
  PROVE  CompleteInv'
<1>1. /\ UpstreamTyped /\ UpstreamKnows /\ Booked(tr) /\ reason \in {"end_turn", "max_tokens"}
      /\ AnthropicHonest /\ TranslatorInv /\ phase = "reading" /\ Good(tr)
      /\ ~tr.finished => InReading
      /\ tr.wire.end \in StopReasons => Ended
  BY DEF HonestInv, StreamsTyped, CompleteInv, Process, TranslatorInv
<1>2. UpstreamKnows' /\ (tr.finished <=> ev.type = "[DONE]")
  BY <1>1, UpstreamKnowsNext, OrderlySends DEF AnthropicHonest
<1>3. "none" \notin StopReasons /\ "error" \notin StopReasons /\ "rejected" \notin StopReasons
  BY DEF StopReasons
<1>4. CASE tr.finished
  <2>1. DoneMark(ev)
    BY <1>2, <1>4
       DEF Process, Created, TextDelta, ReasoningPartAdded, ReasoningDelta, ReasoningPartDone,
           ContentPartAdded, ContentPartDone, MessageAdded, ReasoningAdded, CallAdded,
           ArgumentsDelta, CallDone, MessageDone, ReasoningDone, Completed, Failed, Invalid
  <2>2. tr' = tr /\ phase' = phase /\ reason' = reason
    BY <1>4, <2>1 DEF DoneMark, Becomes, Finish
  <2>3. Booked(tr') /\ (tr'.wire.end \in StopReasons => Ended')
    BY <1>1, <2>2 DEF Ended
  <2> QED
    BY <1>1, <1>2, <1>4, <2>2, <2>3 DEF CompleteInv
<1>5. CASE ~tr.finished /\ (ContentEvent(ev) \/ ThoughtEvent(ev) \/ Created(ev))
  <2>1. Booked(tr') /\ InReading'
    BY <1>1, <1>5, ContentEventReads, ThoughtEventReads, CreatedReads
  <2>2. StepLive
    BY <1>1, <1>5, TextEventsGood, CallEventsGood, ReasoningEventsGood
       DEF ContentEvent, ThoughtEvent
  <2>3. tr'.wire.end = "none" /\ phase' = "reading"
    BY <1>5, <2>2 DEF StepLive, StepGood, Good, Flagged
  <2>4. reason' = reason
    BY <1>5 DEF ContentEvent, ThoughtEvent, Created, TextDelta, ReasoningPartAdded,
                ReasoningDelta, ReasoningPartDone, ContentPartAdded, ContentPartDone,
                MessageAdded, ReasoningAdded, CallAdded, ArgumentsDelta, CallDone,
                MessageDone, ReasoningDone, Becomes
  <2> QED
    BY <1>1, <1>2, <1>3, <2>1, <2>3, <2>4 DEF CompleteInv
<1>6. CASE ~tr.finished /\ Completed(ev)
  <2>1. Booked(tr') /\ Outstanding(tr', rest') /\ reason' \in {"end_turn", "max_tokens"}
    BY <1>1, <1>6, CompletedLeaves
  <2>2. phase' = "final" /\ tr' = EnsureStart(tr)
    BY <1>6 DEF Completed
  <2>3. tr'.wire.end = "none"
    BY <1>1, <1>6, <2>2, EnsureStartGood DEF Started, Good, Flagged
  <2> QED
    BY <1>2, <1>3, <2>1, <2>2, <2>3 DEF CompleteInv
<1>7. CASE ~tr.finished /\ Failed(ev)
  <2>1. tr' = Fail(tr) /\ phase' = phase /\ reason' = reason
    BY <1>7 DEF Failed, Becomes
  <2>2. Booked(tr') /\ tr'.finished /\ tr'.wire.end = "error"
    BY <1>1, <1>7, <2>1, ErrorBooked, FailGood
  <2> QED
    BY <1>1, <1>2, <1>3, <2>1, <2>2 DEF CompleteInv
<1>8. CASE ~tr.finished /\ Invalid(ev)
  <2>1. tr' = PipeFailed(tr) /\ phase' = "over" /\ reason' = reason
    BY <1>8 DEF Invalid
  <2>2. Booked(tr') /\ tr'.wire.end \in {"error", "rejected"}
    BY <1>1, <1>8, <2>1, ErrorBooked, PipeFailedOk
  <2> QED
    BY <1>1, <1>2, <1>3, <2>1, <2>2 DEF CompleteInv
<1>9. CASE ~tr.finished /\ DoneMark(ev)
  BY <1>2, <1>9 DEF DoneMark
<1> QED
  BY <1>4, <1>5, <1>6, <1>7, <1>8, <1>9 DEF Process, ContentEvent, ThoughtEvent

LEMMA CompleteRest ==
  ASSUME HonestInv, StreamsTyped, CompleteInv, orderly, endpoint = "messages",
         FinalItem \/ FinishCompleted \/ UpstreamEOF, UNCHANGED <<upstreamVars, endpoint>>
  PROVE  CompleteInv'
<1>1. /\ UpstreamKnows /\ Booked(tr) /\ reason \in {"end_turn", "max_tokens"}
      /\ AnthropicHonest /\ TranslatorInv /\ rest \in Seq(Items) /\ Good(tr)
      /\ tr.wire.end \in StopReasons => Ended
  BY DEF HonestInv, CompleteInv, TranslatorInv, FinalItem, FinishCompleted, UpstreamEOF
<1>2. UpstreamKnows' /\ endpoint' = "messages"
  BY <1>1 DEF upstreamVars, UpstreamKnows, OpenReasoning
<1>3. "none" \notin StopReasons /\ "error" \notin StopReasons /\ "rejected" \notin StopReasons
  BY DEF StopReasons
<1>4. phase = "final" => Sound(tr) /\ ~tr.finished /\ Outstanding(tr, rest)
  BY <1>1 DEF CompleteInv, TranslatorInv, AnthropicHonest, Sound, Started
<1>5. CASE FinalItem
  <2>1. phase = "final" /\ phase' = "final" /\ reason' = reason
    BY <1>5 DEF FinalItem
  <2>2. Booked(tr') /\ Outstanding(tr', rest')
    BY <1>1, <1>4, <1>5, <2>1, FinalItemDelivers
  <2>3. tr'.wire.end = "none"
    BY <1>1, <1>4, <1>5, <2>1, FinalItemContinues DEF Continues, Started, Good, Flagged
  <2> QED
    BY <1>1, <1>2, <1>3, <2>1, <2>2, <2>3 DEF CompleteInv
<1>6. CASE FinishCompleted
  <2>1. phase = "final" /\ phase' = "reading" /\ reason' = reason
    BY <1>6 DEF FinishCompleted
  <2>2. Booked(tr') /\ tr'.finished /\ Ended'
    BY <1>1, <1>4, <1>6, <2>1, FinishEnds
  <2> QED
    BY <1>1, <1>2, <2>1, <2>2 DEF CompleteInv
<1>7. CASE UpstreamEOF /\ tr.finished
  <2>1. tr' = tr /\ phase' = "over" /\ reason' = reason
    BY <1>7 DEF UpstreamEOF
  <2>2. Booked(tr') /\ (tr'.wire.end \in StopReasons => Ended')
    BY <1>1, <2>1 DEF Ended
  <2> QED
    BY <1>1, <1>2, <2>1, <2>2 DEF CompleteInv
<1>8. CASE UpstreamEOF /\ ~tr.finished
  <2>1. tr' = PipeFailed(tr) /\ phase = "reading" /\ phase' = "over" /\ reason' = reason
    BY <1>8 DEF UpstreamEOF
  <2>2. InReading
    BY <1>8, <2>1 DEF CompleteInv
  <2>3. Booked(tr') /\ tr'.wire.end \in {"error", "rejected"}
    BY <1>1, <1>8, <2>1, <2>2, ErrorBooked, PipeFailedOk
  <2> QED
    BY <1>1, <1>2, <1>3, <2>1, <2>3 DEF CompleteInv
<1> QED
  BY <1>5, <1>6, <1>7, <1>8

LEMMA CompleteInit == Init => CompleteInv
<1> SUFFICES ASSUME Init PROVE CompleteInv
  OBVIOUS
<1>1. PICK mode \in Modes : tr = NewTranslator(mode)
  BY DEF Init, AnthropicInit
<1>2. /\ tr.wire.got = [i \in Items |-> 0] /\ tr.wire.signed = {} /\ tr.wire.end = "none"
      /\ tr.wire.blocks = <<>> /\ tr.blocks = <<>> /\ tr.next = 0 /\ ~tr.hasTool
      /\ tr.thinking = Nowhere /\ tr.signature = NoItem /\ tr.completed = {}
  BY <1>1 DEF NewTranslator, NothingReceived
<1>3. DOMAIN tr.blocks = {}
  BY <1>2
<1>4. sent = [i \in Items |-> Untouched] /\ phase = "reading" /\ reason = "end_turn"
  BY DEF Init, UpstreamInit, AnthropicInit
<1>5. \A i \in Items : /\ sent[i] = Untouched /\ sent[i].parts = 0 /\ ~sent[i].added
                       /\ ~sent[i].closed /\ ~sent[i].done /\ ~sent[i].signed
  BY <1>4 DEF Untouched
<1>6. OpenReasoning = {}
  BY <1>5 DEF OpenReasoning, Items
<1>7. UpstreamKnows
  BY <1>5, <1>6 DEF UpstreamKnows, Items
<1>8. Booked(tr)
  BY <1>2, <1>3 DEF Booked
<1>9. InReading
  <2>1. \A i \in Messages \cup Calls : ContentKnown(i)
    BY <1>2, <1>3, <1>5 DEF ContentKnown, Emitted, Registered, Items
  <2>2. \A i \in Reasonings : ThoughtKnown(i)
    BY <1>2, <1>5, <1>6 DEF ThoughtKnown, Items
  <2>3. InHand
    BY <1>2 DEF InHand
  <2> QED
    BY <2>1, <2>2, <2>3 DEF InReading
<1> QED
  BY <1>2, <1>4, <1>7, <1>8, <1>9 DEF CompleteInv, StopReasons

LEMMA CompleteNext == HonestInv /\ StreamsTyped /\ CompleteInv /\ [Next]_vars => CompleteInv'
<1> SUFFICES ASSUME HonestInv, StreamsTyped, CompleteInv, [Next]_vars, orderly'
             PROVE  CompleteInv'
  BY DEF CompleteInv
<1>1. orderly
  BY ProcessSends DEF Next, AnthropicNext, ChatNext, ChatWholeBody, Sends, vars, upstreamVars
<1>2. CASE UNCHANGED vars
  BY <1>2 DEF vars, upstreamVars, anthropicVars, CompleteInv, UpstreamKnows, OpenReasoning, Ended,
              InReading, ContentKnown, ThoughtKnown, InHand, Begun
<1>3. CASE endpoint = "messages" /\ AnthropicNext /\ UNCHANGED endpoint
  <2>1. ASSUME NEW ev \in Events, Process(ev), Sends(ev) PROVE CompleteInv'
    BY <1>1, <1>3, <2>1, CompleteEvent
  <2>2. CASE (FinalItem \/ FinishCompleted \/ UpstreamEOF) /\ UNCHANGED upstreamVars
    BY <1>1, <1>3, <2>2, CompleteRest
  <2> QED
    BY <1>3, <2>1, <2>2, ProcessSends DEF AnthropicNext
<1>4. CASE endpoint = "chat" /\ ChatNext /\ UNCHANGED anthropicVars /\ UNCHANGED endpoint
  <2>1. UpstreamKnows /\ UpstreamTyped
    BY <1>1 DEF CompleteInv, StreamsTyped
  <2>2. UpstreamKnows'
    <3>1. ASSUME NEW ev \in Events, Sends(ev) PROVE UpstreamKnows'
      BY <1>1, <2>1, <3>1, UpstreamKnowsNext
    <3>2. CASE sent' = sent
      BY <2>1, <3>2 DEF UpstreamKnows, OpenReasoning
    <3> QED
      BY <1>4, <3>1, <3>2, ProcessSends DEF ChatNext, ChatWholeBody, upstreamVars
  <2>3. tr' = tr /\ reason' = reason /\ endpoint' = "chat"
    BY <1>4 DEF anthropicVars
  <2> QED
    BY <1>1, <2>2, <2>3 DEF CompleteInv, Ended
<1> QED
  BY <1>2, <1>3, <1>4 DEF Next

\* On /v1/messages, for any answer of an orderly upstream and any thinking mode:
\* a stream that ended normally has said every item in full, once, or once or
\* twice where it is reasoning without an id; messages and calls in one block
\* each, calls by their names, each signature on a block of its own item; and, as
\* the reason of its stop, the one of the unstreamed answer for every response
\* that gives none of its own or one that only repeats its status, however
\* deltas, "done" events and the terminal event's output share the content
\* between them.
THEOREM MessagesAnswerComplete == Spec => []AnswerComplete
<1>1. Spec => [](HonestInv /\ StreamsTyped /\ CompleteInv)
  BY HonestInit, HonestNext, StreamsTypedInit, StreamsTypedNext, CompleteInit, CompleteNext, PTL
     DEF Spec
<1>2. HonestInv /\ StreamsTyped /\ CompleteInv => AnswerComplete
  <2> SUFFICES ASSUME StreamsTyped, CompleteInv, orderly PROVE AnswerComplete
    BY DEF AnswerComplete
  <2>1. \A x \in tr.wire.signed : x[1] = x[2] /\ x[2] \in Signed
    BY DEF CompleteInv, Booked
  <2>2. CASE tr.wire.end \notin StopReasons
    BY <2>1, <2>2 DEF AnswerComplete
  <2>3. CASE tr.wire.end \in StopReasons
    <3>1. /\ \A i \in Items : Delivered(tr, i)
          /\ DOMAIN tr.wire.blocks = 1 .. tr.next
          /\ \A said \in Plain(reason = "max_tokens") :
               tr.wire.end = TranslatedReason(reason = "max_tokens", said)
          /\ Booked(tr) /\ DOMAIN tr.blocks \subseteq Keys
      BY <2>3 DEF CompleteInv, Ended, StreamsTyped, Typed
    <3>2. \A i \in Items : Said(i)
      BY <3>1 DEF Delivered, Said
    <3>3. {x[2] : x \in tr.wire.signed} = TranslatedSigned(tr.mode)
      <4>1. CASE tr.mode = "off"
        BY <3>1, <4>1 DEF Booked, TranslatedSigned
      <4>2. CASE tr.mode # "off"
        <5>1. ASSUME NEW i \in Signed PROVE <<i, i>> \in tr.wire.signed
          BY <3>1, <4>2, ItemsAssumption DEF Delivered, Items
        <5>2. Signed \subseteq {x[2] : x \in tr.wire.signed}
          <6> SUFFICES ASSUME NEW i \in Signed
                       PROVE  \E x \in tr.wire.signed : i = x[2]
            OBVIOUS
          <6>1. <<i, i>> \in tr.wire.signed /\ <<i, i>>[2] = i
            BY <5>1
          <6> QED
            BY <6>1
        <5>3. {x[2] : x \in tr.wire.signed} \subseteq Signed
          BY <2>1
        <5>4. {x[2] : x \in tr.wire.signed} = Signed
          BY <5>2, <5>3, Zenon
        <5> QED
          BY <4>2, <5>4 DEF TranslatedSigned
      <4> QED
        BY <4>1, <4>2
    <3>4. ASSUME NEW b \in DOMAIN tr.wire.blocks, NEW c \in DOMAIN tr.wire.blocks,
                 tr.wire.blocks[b].item = tr.wire.blocks[c].item,
                 tr.wire.blocks[b].kind # "thinking"
          PROVE  b = c
      <4>1. PICK k \in DOMAIN tr.blocks :
              tr.blocks[k].index = b /\ tr.wire.blocks[b].item = k[1]
        BY <3>1, <3>4 DEF Booked
      <4>2. k[1] \in Messages \cup Calls
        BY <3>1 DEF Keys
      <4>3. tr.wire.blocks[c].kind # "thinking"
        <5>1. k[1] \notin Reasonings
          BY <4>2, ItemsAssumption
        <5>2. tr.wire.blocks[c].kind = "thinking" => tr.wire.blocks[c].item \in Reasonings
          BY <3>1 DEF Booked
        <5> QED
          BY <3>4, <4>1, <5>1, <5>2
      <4>4. PICK l \in DOMAIN tr.blocks :
              tr.blocks[l].index = c /\ tr.wire.blocks[c].item = l[1]
        BY <3>1, <4>3 DEF Booked
      <4>5. k = l
        BY <3>1, <3>4, <4>1, <4>4 DEF Booked
      <4> QED
        BY <4>1, <4>4, <4>5
    <3>5. \A b \in DOMAIN tr.wire.blocks :
            tr.wire.blocks[b].kind = "tool" => tr.wire.blocks[b].named
      BY <3>1 DEF Booked
    <3> QED
      BY <2>1, <3>1, <3>2, <3>3, <3>4, <3>5 DEF AnswerComplete
  <2> QED
    BY <2>2, <2>3
<1> QED
  BY <1>1, <1>2, PTL
=============================================================================
