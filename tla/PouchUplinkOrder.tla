---------------------------- MODULE PouchUplinkOrder ---------------------------
(***************************************************************************)
(* What an application writes leaves the uplink in order, at most once and *)
(* framed, for every value of PouchUplink's constants.                     *)
(***************************************************************************)
EXTENDS PouchUplinkService

LOCAL INSTANCE SequencesExt

-----------------------------------------------------------------------------
(* A line of blocks in order *)

(* b may come after a, a block of the same source: its items are newer, and if they
   belong to a stream, a is not its last block and b not its first. *)
Before(a, b) ==
    /\ Ahead(a.data, b.data)
    /\ a.uid # 0 => ~a.last /\ ~b.first

(* b may come after all blocks of L. *)
Follows(L, b) == Increasing(b.data) /\ \A a \in L : a.uid = b.uid => Before(a, b)

InOrder(w) ==
    /\ \A p \in DOMAIN w : Increasing(w[p].data)
    /\ \A p, q \in DOMAIN w : (p < q /\ w[p].uid = w[q].uid) => Before(w[p], w[q])

LEMMA InOrderAppend ==
    ASSUME NEW w \in Seq(Blocks), NEW b \in Blocks, InOrder(w), Follows(ToSet(w), b)
    PROVE  InOrder(Append(w, b))
<1> DEFINE v == Append(w, b)
<1>1. /\ v \in Seq(Blocks) /\ Len(v) = Len(w) + 1 /\ Len(w) \in Nat
      /\ \A i \in 1..Len(w) : v[i] = w[i]
      /\ v[Len(w) + 1] = b
  BY AppendProperties, LenProperties
<1>2. DOMAIN w = 1..Len(w) /\ DOMAIN v = 1..Len(w) + 1
  BY <1>1, LenProperties
<1> HIDE DEF v
<1>3. \A p \in DOMAIN v : p \in DOMAIN w \/ p = Len(w) + 1
  BY <1>1, <1>2
<1>4. ASSUME NEW p \in DOMAIN v PROVE Increasing(v[p].data)
  BY <1>1, <1>2, <1>3, Zenon DEF InOrder, Follows
<1>5. ASSUME NEW p \in DOMAIN v, NEW q \in DOMAIN v, p < q, v[p].uid = v[q].uid
      PROVE  Before(v[p], v[q])
  <2>1. p \in DOMAIN w
    BY <1>1, <1>2, <1>5
  <2>2. v[p] = w[p]
    BY <1>1, <1>2, <2>1
  <2>3. CASE q \in DOMAIN w
    <3>1. v[q] = w[q]
      BY <1>1, <1>2, <2>3
    <3> QED
      BY <1>5, <2>1, <2>2, <2>3, <3>1, Zenon DEF InOrder
  <2>4. CASE q \notin DOMAIN w
    <3>1. v[q] = b
      BY <1>1, <1>3, <2>4, Zenon
    <3>2. w[p] \in ToSet(w)
      BY <2>1, Zenon DEF ToSet
    <3> QED
      BY <1>5, <2>2, <3>1, <3>2, Zenon DEF Follows
  <2> QED
    BY <2>3, <2>4
<1> QED
  BY <1>4, <1>5, Zenon DEF InOrder, v

(* What v has comes from w, in the same order: f tells from where. *)
ThinnedBy(f, w, v) ==
    /\ f \in [DOMAIN v -> DOMAIN w]
    /\ \A p \in DOMAIN v : v[p] = w[f[p]]
    /\ \A p, q \in DOMAIN v : p < q => f[p] < f[q]

LEMMA InOrderThinned ==
    ASSUME NEW w, NEW v, NEW f, ThinnedBy(f, w, v), InOrder(w)
    PROVE  InOrder(v) /\ ToSet(v) \subseteq ToSet(w)
<1>1. \A p \in DOMAIN v : f[p] \in DOMAIN w /\ v[p] = w[f[p]]
  BY DEF ThinnedBy
<1>2. ASSUME NEW p \in DOMAIN v PROVE Increasing(v[p].data)
  BY <1>1, Zenon DEF InOrder
<1>3. ASSUME NEW p \in DOMAIN v, NEW q \in DOMAIN v, p < q, v[p].uid = v[q].uid
      PROVE  Before(v[p], v[q])
  <2> DEFINE k == f[p]
             l == f[q]
  <2>1. k \in DOMAIN w /\ l \in DOMAIN w /\ v[p] = w[k] /\ v[q] = w[l]
    BY <1>1
  <2>2. k < l
    BY <1>3, Zenon DEF ThinnedBy
  <2> HIDE DEF k, l
  <2> QED
    BY <1>3, <2>1, <2>2, Zenon DEF InOrder
<1>4. ToSet(v) \subseteq ToSet(w)
  BY <1>1 DEF ToSet
<1> QED
  BY <1>2, <1>3, <1>4, Zenon DEF InOrder

(* A line whose middle is cut out stays in order. *)
LEMMA InOrderCut ==
    ASSUME NEW a \in Seq(Blocks), NEW m \in Seq(Blocks), NEW r \in Seq(Blocks),
           InOrder((a \o m) \o r)
    PROVE  InOrder(a \o r) /\ ToSet(a \o r) \subseteq ToSet((a \o m) \o r)
<1> DEFINE c == a \o m
           w == c \o r
           v == a \o r
           f == [p \in 1..Len(a) + Len(r) |-> IF p <= Len(a) THEN p ELSE p + Len(m)]
<1>1. Len(a) \in Nat /\ Len(m) \in Nat /\ Len(r) \in Nat
  BY LenProperties
<1>2. /\ c \in Seq(Blocks) /\ Len(c) = Len(a) + Len(m)
      /\ \A i \in 1..Len(a) + Len(m) : c[i] = IF i <= Len(a) THEN a[i] ELSE m[i - Len(a)]
  BY ConcatProperties
<1>3. /\ v \in Seq(Blocks) /\ Len(v) = Len(a) + Len(r)
      /\ \A i \in 1..Len(a) + Len(r) : v[i] = IF i <= Len(a) THEN a[i] ELSE r[i - Len(a)]
  BY ConcatProperties
<1> HIDE DEF c, v
<1>4. /\ w \in Seq(Blocks) /\ Len(w) = Len(c) + Len(r)
      /\ \A i \in 1..Len(c) + Len(r) : w[i] = IF i <= Len(c) THEN c[i] ELSE r[i - Len(c)]
  <2>1. c \in Seq(Blocks) /\ r \in Seq(Blocks)
    BY <1>2
  <2> QED
    BY <2>1, ConcatProperties
<1> HIDE DEF w
<1>5. DOMAIN v = 1..Len(a) + Len(r) /\ DOMAIN w = 1..Len(c) + Len(r)
  BY <1>3, <1>4, LenProperties
<1>6. \A p \in DOMAIN v : f[p] = IF p <= Len(a) THEN p ELSE p + Len(m)
  BY <1>5
<1>7. f \in [DOMAIN v -> DOMAIN w]
  <2>1. \A p \in 1..Len(a) + Len(r) :
            (IF p <= Len(a) THEN p ELSE p + Len(m)) \in 1..Len(c) + Len(r)
    BY <1>1, <1>2
  <2> QED
    BY <1>5, <2>1
<1>8. ASSUME NEW p \in DOMAIN v PROVE v[p] = w[f[p]]
  <2>1. CASE p <= Len(a)
    <3>1. f[p] = p /\ v[p] = a[p] /\ p \in 1..Len(a) + Len(m)
          /\ p \in 1..Len(c) + Len(r) /\ p <= Len(c)
      BY <1>1, <1>2, <1>3, <1>5, <2>1
    <3>2. w[p] = c[p] /\ c[p] = a[p]
      BY <1>2, <1>4, <2>1, <3>1
    <3> QED
      BY <3>1, <3>2, Zenon
  <2>2. CASE ~(p <= Len(a))
    <3> DEFINE k == p + Len(m)
    <3>1. f[p] = k /\ v[p] = r[p - Len(a)] /\ k \in 1..Len(c) + Len(r) /\ ~(k <= Len(c))
          /\ k - Len(c) = p - Len(a)
      BY <1>1, <1>2, <1>3, <1>5, <2>2
    <3> HIDE DEF k
    <3>2. w[k] = r[k - Len(c)]
      BY <1>4, <3>1
    <3> QED
      BY <3>1, <3>2, Zenon
  <2> QED
    BY <2>1, <2>2
<1>9. ASSUME NEW p \in DOMAIN v, NEW q \in DOMAIN v, p < q PROVE f[p] < f[q]
  BY <1>1, <1>5, <1>6, <1>9
<1> HIDE DEF f
<1>10. ThinnedBy(f, w, v)
  BY <1>7, <1>8, <1>9, Zenon DEF ThinnedBy
<1>11. InOrder(w)
  BY DEF w, c
<1>12. InOrder(v) /\ ToSet(v) \subseteq ToSet(w)
  BY <1>10, <1>11, InOrderThinned
<1> QED
  BY <1>12 DEF v, w, c

-----------------------------------------------------------------------------
(* How the steps change the line of blocks *)

Sent   == [i \in 1..Len(sent) |-> sent[i].blk]
InLine == ToSet(Pipeline)

LEMMA PipelineParts == Pipeline = Sent \o Waiting
  BY DEF Pipeline, Sent

LEMMA PipelinePartsNext == Pipeline' = Sent' \o Waiting'
  BY DEF Pipeline, Sent

LEMMA SentType == TypeInv => Sent \in Seq(Blocks)
<1> SUFFICES ASSUME TypeInv PROVE Sent \in Seq(Blocks)
  OBVIOUS
<1>1. sent \in Seq([id : Nat, blk : Blocks])
  BY DEF TypeInv, TypeOK, OutTypes
<1>2. Len(sent) \in Nat /\ \A i \in 1..Len(sent) : sent[i] \in [id : Nat, blk : Blocks]
  BY <1>1, LenProperties, ElementOfSeq
<1>3. \A i \in 1..Len(sent) : sent[i].blk \in Blocks
  BY <1>2
<1> QED
  BY <1>2, <1>3, IsASeq DEF Sent

LEMMA PipelineType == TypeInv => Pipeline \in Seq(Blocks)
<1> SUFFICES ASSUME TypeInv PROVE Pipeline \in Seq(Blocks)
  OBVIOUS
<1>1. Sent \in Seq(Blocks) /\ Waiting \in Seq(Blocks)
  BY SentType, LineType DEF LineTypes
<1> QED
  BY <1>1, PipelineParts, ConcatProperties

LEMMA InLineType == TypeInv => InLine \subseteq Blocks
  BY PipelineType, ToSetType DEF InLine

LEMMA SentSame == sent' = sent => Sent' = Sent
  BY DEF Sent

LEMMA SentAppend ==
    ASSUME TypeInv, NEW n \in Nat, NEW b \in Blocks,
           sent' = Append(sent, [id |-> n, blk |-> b])
    PROVE  Sent' = Append(Sent, b)
<1> DEFINE e == [id |-> n, blk |-> b]
           S == [id : Nat, blk : Blocks]
<1>1. sent \in Seq(S) /\ e \in S /\ e.blk = b
  BY DEF TypeInv, TypeOK, OutTypes
<1>2. Sent \in Seq(Blocks) /\ Len(sent) \in Nat
  BY <1>1, SentType, LenProperties
<1> HIDE DEF e, S
<1>3. sent' \in Seq(S) /\ Len(sent') = Len(sent) + 1 /\ sent'[Len(sent) + 1] = e
      /\ \A i \in 1..Len(sent) : sent'[i] = sent[i]
  BY <1>1, AppendProperties DEF e
<1>4. Len(Sent) = Len(sent) /\ \A i \in 1..Len(sent) : Sent[i] = sent[i].blk
  BY <1>2 DEF Sent
<1>5. /\ Append(Sent, b) \in Seq(Blocks) /\ Len(Append(Sent, b)) = Len(sent) + 1
      /\ \A i \in 1..Len(sent) : Append(Sent, b)[i] = Sent[i]
      /\ Append(Sent, b)[Len(sent) + 1] = b
  BY <1>2, <1>4, AppendProperties
<1>6. \A i \in 1..Len(sent) + 1 : sent'[i].blk = Append(Sent, b)[i]
  <2> SUFFICES ASSUME NEW i \in 1..Len(sent) + 1
               PROVE  sent'[i].blk = Append(Sent, b)[i]
    OBVIOUS
  <2>1. CASE i = Len(sent) + 1
    BY <1>1, <1>3, <1>5, <2>1, Zenon
  <2>2. CASE i # Len(sent) + 1
    <3>1. i \in 1..Len(sent)
      BY <1>2, <2>2
    <3> QED
      BY <1>3, <1>4, <1>5, <3>1, Zenon
  <2> QED
    BY <2>1, <2>2
<1>7. \A i \in 1..Len(sent) + 1 : sent'[i].blk \in Blocks
  <2>1. \A i \in 1..Len(sent) + 1 : Append(Sent, b)[i] \in Blocks
    BY <1>2, <1>5, ElementOfSeq
  <2> QED
    BY <1>6, <2>1
<1>8. /\ Sent' \in Seq(Blocks) /\ Len(Sent') = Len(sent) + 1
      /\ \A i \in 1..Len(sent) + 1 : Sent'[i] = sent'[i].blk
  <2> DEFINE T == [i \in 1..Len(sent) + 1 |-> sent'[i].blk]
  <2>1. Sent' = T
    BY <1>3, Zenon DEF Sent
  <2>2. T \in Seq(Blocks) /\ Len(T) = Len(sent) + 1
    BY <1>2, <1>7, IsASeq
  <2>3. \A i \in 1..Len(sent) + 1 : T[i] = sent'[i].blk
    OBVIOUS
  <2> QED
    BY <2>1, <2>2, <2>3, Zenon
<1> QED
  BY <1>5, <1>6, <1>8, SeqEqual

LEMMA PipelineSame ==
    ASSUME UNCHANGED <<reader, transport, wbuf, processing, sent>>
    PROVE  Pipeline' = Pipeline
  BY WaitingSame, SentSame, PipelineParts, PipelinePartsNext

LEMMA PipelineAppend ==
    ASSUME TypeInv, NEW b \in Blocks, processing' = Append(processing, b),
           UNCHANGED <<reader, transport, wbuf, sent>>
    PROVE  Pipeline' = Append(Pipeline, b)
<1>1. Waiting' = Append(Waiting, b) /\ Sent' = Sent
  BY WaitingAppend, SentSame
<1>2. Sent \in Seq(Blocks) /\ Waiting \in Seq(Blocks)
  BY SentType, LineType DEF LineTypes
<1>3. Sent \o Append(Waiting, b) = Append(Sent \o Waiting, b)
  BY <1>2, ConcatAppend
<1> QED
  BY <1>1, <1>3, PipelineParts, PipelinePartsNext, Zenon

(* The work queue and the transport never bring a block in or change the order. *)
Shrinks == InOrder(Pipeline) => InOrder(Pipeline') /\ InLine' \subseteq InLine

LEMMA ShrinksSame ==
    ASSUME Pipeline' = Pipeline
    PROVE  Shrinks
  BY DEF Shrinks, InLine

LEMMA ShrinksCut ==
    ASSUME NEW a \in Seq(Blocks), NEW m \in Seq(Blocks), NEW r \in Seq(Blocks),
           Pipeline = (a \o m) \o r, Pipeline' = a \o r
    PROVE  Shrinks
<1>1. InLine = ToSet((a \o m) \o r) /\ InLine' = ToSet(a \o r)
  BY Zenon DEF InLine
<1>2. InOrder((a \o m) \o r) => InOrder(a \o r) /\ ToSet(a \o r) \subseteq ToSet((a \o m) \o r)
  BY InOrderCut
<1> QED
  BY <1>1, <1>2, Zenon DEF Shrinks

LEMMA WorkerShrinks ==
    ASSUME TypeInv, LineInv, process_blocks
    PROVE  Shrinks
<1>1. Sent' = Sent
  BY WorkerLine, SentSame
<1>2. CASE Waiting' = Waiting
  BY <1>1, <1>2, PipelineParts, PipelinePartsNext, ShrinksSame
<1>3. CASE Waiting' # Waiting
  <2>1. PICK h, r \in Seq(Blocks) : /\ Len(h) = 1 /\ Waiting = (Pulling \o h) \o r
                                    /\ Waiting' = Pulling \o r
    BY <1>3, WorkerLine
  <2> DEFINE a == Sent \o Pulling
             c == Pulling \o h
  <2>2. Pulling \in Seq(Blocks) /\ Sent \in Seq(Blocks)
    BY SentType, LineType DEF LineTypes
  <2>3. a \in Seq(Blocks) /\ c \in Seq(Blocks)
    BY <2>2, ConcatProperties
  <2>4. a \o h = Sent \o c
    BY <2>2, ConcatAssociative
  <2>5. a \o r = Sent \o (Pulling \o r)
    BY <2>2, ConcatAssociative
  <2> HIDE DEF a
  <2>6. (Sent \o c) \o r = Sent \o (c \o r)
    <3> HIDE DEF c
    <3> QED
      BY <2>2, <2>3, ConcatAssociative, SMTT(30)
  <2>7. Pipeline' = a \o r
    BY <1>1, <2>1, <2>5, PipelinePartsNext, Zenon
  <2>8. Pipeline = (a \o h) \o r
    BY <2>1, <2>4, <2>6, PipelineParts, Zenon
  <2> QED
    BY <2>3, <2>7, <2>8, ShrinksCut
<1> QED
  BY <1>2, <1>3

LEMMA FillShrinks ==
    ASSUME TypeInv, pouch_uplink_fill
    PROVE  Shrinks
<1>1. CASE Waiting' = Waiting /\ sent' = sent
  BY <1>1, SentSame, PipelineParts, PipelinePartsNext, ShrinksSame
<1>2. CASE /\ Waiting # <<>> /\ Waiting' = Tail(Waiting)
           /\ sent' = Append(sent, [id |-> id, blk |-> Head(Waiting)])
  <2>1. Sent \in Seq(Blocks) /\ Waiting \in Seq(Blocks) /\ id \in Nat
    BY SentType, LineType DEF LineTypes, TypeInv, TypeOK, TransportTypes
  <2>2. Head(Waiting) \in Blocks
    BY <1>2, <2>1, HeadTailProperties
  <2>3. Sent' = Append(Sent, Head(Waiting))
    BY <1>2, <2>1, <2>2, SentAppend
  <2>4. Sent \o Waiting = Append(Sent, Head(Waiting)) \o Tail(Waiting)
    BY <1>2, <2>1, ConcatMoveHead
  <2>5. Pipeline' = Pipeline
    BY <1>2, <2>3, <2>4, PipelineParts, PipelinePartsNext, Zenon
  <2> QED
    BY <2>5, ShrinksSame
<1> QED
  BY <1>1, <1>2, FillLine

LEMMA FinishShrinks ==
    ASSUME TypeInv, pouch_uplink_finish
    PROVE  Shrinks
<1> USE DEF otherThanTransport, workerVars, outVars
<1>1. UNCHANGED <<wbuf, processing, sent>>
  BY Zenon DEF pouch_uplink_finish, finish_flush, finish_id, finish_clear, finish_end
<1>2. Sent' = Sent
  BY <1>1, SentSame
<1>3. CASE finish_flush
  <2>1. transport' = <<>> /\ reader' = NoBuf
    BY <1>3 DEF finish_flush
  <2>2. Waiting' = Encrypting
    BY <1>1, <2>1, WaitingFlushed
  <2>3. Sent \in Seq(Blocks) /\ Pulling \in Seq(Blocks) /\ Encrypting \in Seq(Blocks)
    BY SentType, LineType DEF LineTypes
  <2>4. (Sent \o Pulling) \o Encrypting = Sent \o (Pulling \o Encrypting)
    BY <2>3, ConcatAssociative
  <2>5. Pipeline = (Sent \o Pulling) \o Encrypting /\ Pipeline' = Sent \o Encrypting
    BY <1>2, <2>2, <2>4, LineParts, PipelineParts, PipelinePartsNext, Zenon
  <2> QED
    BY <2>3, <2>5, ShrinksCut
<1>4. CASE finish_id \/ finish_clear \/ finish_end
  <2>1. UNCHANGED <<reader, transport>>
    BY <1>4, Zenon DEF finish_id, finish_clear, finish_end
  <2> QED
    BY <1>1, <2>1, PipelineSame, ShrinksSame
<1> QED
  BY <1>3, <1>4 DEF pouch_uplink_finish

LEMMA StartShrinks ==
    ASSUME pouch_uplink_start
    PROVE  Shrinks
<1>1. UNCHANGED <<reader, transport, wbuf, processing, sent>>
  BY Zenon DEF otherThanTransport, workerVars, outVars, pouch_uplink_start, start_begin,
         start_session, start_crypto, start_crypto_fail, start_pouch, start_header,
         start_header_fail, start_done
<1> QED
  BY <1>1, PipelineSame, ShrinksSame

-----------------------------------------------------------------------------
(* The inductive invariant of the order.  L is the set of blocks in the line, n the
   number of the last item, c the stream ID counter; b is the entry block, s the
   stream, l the label and d the items still to write of a thread. *)

EntryOps  == {"entry", "entry_submit"}
StreamOps == {"stream", "stream_submit", "stream_close_submit"}

LineFits(L, c, n) == \A a \in L : a.uid < c /\ Below(a.data, n + 1)

BlockFits(n, b) == b # NoBuf => b.uid = 0 /\ Below(b.data, n + 1)

(* What a thread still has to write as an entry is newer than all entries. *)
WriterFits(L, n, b, l, d) ==
    l \in EntryOps =>
        /\ Increasing(d) /\ Below(d, n + 1)
        /\ \A a \in L : a.uid = 0 => Ahead(a.data, d)
        /\ (l = "entry" /\ b # NoBuf) => Ahead(b.data, d)

(* The block of a stream can follow those that are in line, until it is handed over
   itself, and what is still to write can follow it. *)
StreamFits(L, c, n, s, l, d) ==
    s # NoBuf =>
        /\ s.uid = s.buf.uid /\ s.uid > 0 /\ s.uid < c
        /\ l \notin {"stream_submit", "stream_close_submit"} =>
               Follows(L, s.buf) /\ Below(s.buf.data, n + 1)
        /\ l = "stream_submit" => \A a \in L : a.uid = s.uid => ~a.last
        /\ l \in {"stream", "stream_submit"} =>
               /\ Increasing(d) /\ Below(d, n + 1)
               /\ \A a \in L : a.uid = s.uid => Ahead(a.data, d)
        /\ l = "stream" => Ahead(s.buf.data, d)

(* The entry block can follow the entries in line, unless it was just handed over. *)
EntryFollows ==
    (block # NoBuf /\ \A t \in Threads : pc[t] \notin Handing) => Follows(InLine, block)

OwnStreamIds ==
    \A t, u \in Threads :
        (t # u /\ stream[t] # NoBuf /\ stream[u] # NoBuf) => stream[t].uid # stream[u].uid

OrderInv ==
    /\ stream_id > 0
    /\ InOrder(Pipeline)
    /\ LineFits(InLine, stream_id, items)
    /\ BlockFits(items, block)
    /\ EntryFollows
    /\ OwnStreamIds
    /\ \A t \in Threads : WriterFits(InLine, items, block, pc[t], todo[t])
    /\ \A t \in Threads : StreamFits(InLine, stream_id, items, stream[t], pc[t], todo[t])

-----------------------------------------------------------------------------
(* What a step of somebody else leaves alone *)

LEMMA BelowMore ==
    ASSUME NEW x \in Seq(Nat), NEW n \in Nat, NEW m \in Nat, n <= m, Below(x, n + 1)
    PROVE  Below(x, m + 1)
<1>1. ToSet(x) \subseteq Nat
  BY ToSetType
<1> QED
  BY <1>1 DEF Below

LEMMA LineFrame ==
    ASSUME NEW L, NEW M, L \subseteq Blocks, NEW c \in Nat, NEW e \in Nat, NEW n \in Nat, NEW m \in Nat,
           c <= e, n <= m, LineFits(L, c, n), M \subseteq L
    PROVE  LineFits(M, e, m)
<1> SUFFICES ASSUME NEW a \in M PROVE a.uid < e /\ Below(a.data, m + 1)
  BY DEF LineFits
<1>1. a.uid \in Nat /\ a.data \in Seq(Nat) /\ a.uid < c /\ Below(a.data, n + 1)
  BY DEF LineFits, Blocks
<1>2. a.uid < e
  BY <1>1
<1> QED
  BY <1>1, <1>2, BelowMore

LEMMA BlockFrame ==
    ASSUME NEW n \in Nat, NEW m \in Nat, n <= m, NEW b \in Blocks \union {NoBuf}, BlockFits(n, b)
    PROVE  BlockFits(m, b)
<1>1. b # NoBuf => b.data \in Seq(Nat)
  BY DEF Blocks
<1> QED
  BY <1>1, BelowMore DEF BlockFits

LEMMA WriterFrame ==
    ASSUME NEW L, NEW M, \A a \in M : a \in L \/ a.uid # 0, NEW n \in Nat, NEW m \in Nat, n <= m,
           NEW b, NEW l, NEW d \in Seq(Nat), WriterFits(L, n, b, l, d)
    PROVE  WriterFits(M, m, b, l, d)
<1> SUFFICES ASSUME l \in EntryOps
             PROVE  /\ Increasing(d) /\ Below(d, m + 1)
                    /\ \A a \in M : a.uid = 0 => Ahead(a.data, d)
                    /\ (l = "entry" /\ b # NoBuf) => Ahead(b.data, d)
  BY Zenon DEF WriterFits
<1>1. Below(d, m + 1)
  BY BelowMore DEF WriterFits
<1> QED
  BY <1>1, Zenon DEF WriterFits

LEMMA StreamFrame ==
    ASSUME NEW L, NEW M, NEW c \in Nat, NEW e \in Nat, NEW n \in Nat, NEW m \in Nat,
           c <= e, n <= m, NEW s \in Streams \union {NoBuf},
           s # NoBuf => \A a \in M : a \in L \/ a.uid # s.uid,
           NEW l, NEW d \in Seq(Nat), StreamFits(L, c, n, s, l, d)
    PROVE  StreamFits(M, e, m, s, l, d)
<1> SUFFICES ASSUME s # NoBuf
             PROVE  /\ s.uid = s.buf.uid /\ s.uid > 0 /\ s.uid < e
                    /\ l \notin {"stream_submit", "stream_close_submit"} =>
                           Follows(M, s.buf) /\ Below(s.buf.data, m + 1)
                    /\ l = "stream_submit" => \A a \in M : a.uid = s.uid => ~a.last
                    /\ l \in {"stream", "stream_submit"} =>
                           /\ Increasing(d) /\ Below(d, m + 1)
                           /\ \A a \in M : a.uid = s.uid => Ahead(a.data, d)
                    /\ l = "stream" => Ahead(s.buf.data, d)
  BY Zenon DEF StreamFits
<1>1. s.uid \in Nat /\ s.buf.data \in Seq(Nat)
  BY DEF Streams, Blocks
<1>2. s.uid = s.buf.uid /\ s.uid > 0 /\ s.uid < e
  BY <1>1 DEF StreamFits
<1>3. \A a \in M : a.uid = s.uid => a \in L
  OBVIOUS
<1>4. ASSUME l \notin {"stream_submit", "stream_close_submit"}
      PROVE  Follows(M, s.buf) /\ Below(s.buf.data, m + 1)
  <2>1. Follows(L, s.buf) /\ Below(s.buf.data, n + 1)
    BY <1>4, Zenon DEF StreamFits
  <2>2. Follows(M, s.buf)
    BY <1>2, <1>3, <2>1, Zenon DEF Follows
  <2> QED
    BY <1>1, <2>1, <2>2, BelowMore
<1>5. l = "stream_submit" => \A a \in M : a.uid = s.uid => ~a.last
  BY <1>3, Zenon DEF StreamFits
<1>6. ASSUME l \in {"stream", "stream_submit"}
      PROVE  /\ Increasing(d) /\ Below(d, m + 1)
             /\ \A a \in M : a.uid = s.uid => Ahead(a.data, d)
  <2>1. /\ Increasing(d) /\ Below(d, n + 1)
        /\ \A a \in L : a.uid = s.uid => Ahead(a.data, d)
    BY <1>6, Zenon DEF StreamFits
  <2>2. Below(d, m + 1)
    BY <2>1, BelowMore
  <2> QED
    BY <1>3, <2>1, <2>2, Zenon
<1>7. l = "stream" => Ahead(s.buf.data, d)
  BY Zenon DEF StreamFits
<1> QED
  BY <1>2, <1>4, <1>5, <1>6, <1>7, Zenon

LEMMA StreamIdle ==
    ASSUME NEW L, NEW c, NEW n, NEW s, NEW l, NEW k, NEW d, NEW f,
           StreamFits(L, c, n, s, l, d), l \notin {"stream_submit", "stream_close_submit"},
           k \notin StreamOps
    PROVE  StreamFits(L, c, n, s, k, f)
<1>1. /\ k # "stream" /\ k # "stream_submit" /\ k \notin {"stream", "stream_submit"}
  BY DEF StreamOps
<1> QED
  BY <1>1, Zenon DEF StreamFits

OrderTypes ==
    /\ stream_id \in Nat /\ items \in Nat /\ InLine \subseteq Blocks
    /\ Pipeline \in Seq(Blocks) /\ block \in Blocks \union {NoBuf}
    /\ pc \in [Threads -> Labels] /\ todo \in [Threads -> Seq(Nat)]
    /\ stream \in [Threads -> Streams \union {NoBuf}]

LEMMA OrderType == TypeInv => OrderTypes
<1> SUFFICES ASSUME TypeInv PROVE OrderTypes
  OBVIOUS
<1>1. InLine \subseteq Blocks /\ Pipeline \in Seq(Blocks)
  BY InLineType, PipelineType
<1> QED
  BY <1>1 DEF OrderTypes, TypeInv, TypeOK, EntryTypes, StreamTypes, CallTypes

LEMMA OrderTypeNext == TypeInv' => OrderTypes'
  BY OrderType, PTL

(* A step of thread t inside the critical section of entry.c, into it or out of it *)
LEMMA InsideStep ==
    ASSUME TypeInv, TypeInv', MutexState, OrderInv, NEW t \in Threads,
           pc[t] \in Locked \/ mut = NoThread,
           NEW l, pc' = [pc EXCEPT ![t] = l],
           pc[t] \notin StreamOps, l \notin StreamOps,
           UNCHANGED <<stream_id, stream>>, items <= items',
           \A u \in Threads : u # t => todo'[u] = todo[u],
           \A a \in InLine' : a \in InLine \/ a.uid = 0,
           InOrder(Pipeline'), LineFits(InLine', stream_id, items'),
           BlockFits(items', block'),
           (block' # NoBuf /\ l \notin Handing) => Follows(InLine', block'),
           WriterFits(InLine', items', block', l, todo'[t])
    PROVE  OrderInv'
<1>1. OrderTypes /\ OrderTypes'
  BY OrderType, OrderTypeNext
<1>2. pc'[t] = l /\ \A u \in Threads : u # t => pc'[u] = pc[u]
  BY <1>1 DEF OrderTypes
<1>3. \A u \in Threads : u # t => pc[u] \notin Locked
  BY MutexAlone
<1>4. EntryFollows'
  <2>1. (\A u \in Threads : pc'[u] \notin Handing) => l \notin Handing
    BY <1>2
  <2> QED
    BY <2>1, Zenon DEF EntryFollows
<1>5. OwnStreamIds'
  BY DEF OrderInv, OwnStreamIds
<1>6. ASSUME NEW u \in Threads PROVE WriterFits(InLine', items', block', pc'[u], todo'[u])
  <2>1. CASE u = t
    BY <1>2, <2>1
  <2>2. CASE u # t
    <3>1. pc'[u] \notin EntryOps
      BY <1>2, <1>3, <2>2 DEF EntryOps, Locked, Handing
    <3> QED
      BY <3>1, Zenon DEF WriterFits
  <2> QED
    BY <2>1, <2>2
<1>7. ASSUME NEW u \in Threads
      PROVE  StreamFits(InLine', stream_id, items', stream[u], pc'[u], todo'[u])
  <2> DEFINE s == stream[u]
  <2>1. s \in Streams \union {NoBuf} /\ stream_id \in Nat /\ items \in Nat /\ items' \in Nat
        /\ todo[u] \in Seq(Nat)
    BY <1>1 DEF OrderTypes
  <2>2. StreamFits(InLine, stream_id, items, s, pc[u], todo[u])
    BY DEF OrderInv
  <2>3. s # NoBuf => \A a \in InLine' : a \in InLine \/ a.uid # s.uid
    <3>1. s # NoBuf => s.uid > 0 /\ s.uid \in Nat
      BY <2>1, <2>2 DEF StreamFits, Streams
    <3> QED
      BY <3>1
  <2> HIDE DEF s
  <2>4. StreamFits(InLine', stream_id, items', s, pc[u], todo[u])
    BY <2>1, <2>2, <2>3, StreamFrame
  <2>5. CASE u = t
    <3>1. pc[u] \notin {"stream_submit", "stream_close_submit"} /\ pc'[u] \notin StreamOps
      BY <1>2, <2>5 DEF StreamOps
    <3> QED
      BY <2>4, <3>1, StreamIdle DEF s
  <2>6. CASE u # t
    BY <1>2, <2>4, <2>6, Zenon DEF s
  <2> QED
    BY <2>5, <2>6
<1>8. stream_id > 0
  BY DEF OrderInv
<1> QED
  BY <1>4, <1>5, <1>6, <1>7, <1>8, Zenon DEF OrderInv

(* A step of thread t outside of it; it hands over nothing but a block of its stream. *)
LEMMA OutsideStep ==
    ASSUME TypeInv, TypeInv', OrderInv, NEW t \in Threads,
           pc[t] \notin Locked, NEW l, l \notin Locked, pc' = [pc EXCEPT ![t] = l],
           block' = block, items <= items', stream_id <= stream_id',
           \A u \in Threads : u # t => todo'[u] = todo[u] /\ stream'[u] = stream[u],
           \A a \in InLine' : a \in InLine \/ (stream[t] # NoBuf /\ a.uid = stream[t].uid),
           InOrder(Pipeline'), LineFits(InLine', stream_id', items'),
           OwnStreamIds',
           StreamFits(InLine', stream_id', items', stream'[t], l, todo'[t])
    PROVE  OrderInv'
<1>1. OrderTypes /\ OrderTypes'
  BY OrderType, OrderTypeNext
<1>2. pc'[t] = l /\ \A u \in Threads : u # t => pc'[u] = pc[u]
  BY <1>1 DEF OrderTypes
<1>3. stream[t] # NoBuf => stream[t].uid > 0 /\ stream[t].uid \in Nat
  BY <1>1 DEF OrderTypes, OrderInv, StreamFits, Streams
<1>4. \A a \in InLine' : a \in InLine \/ a.uid # 0
  BY <1>3
<1>5. stream_id' > 0 /\ items \in Nat /\ items' \in Nat /\ stream_id \in Nat /\ stream_id' \in Nat
      /\ block \in Blocks \union {NoBuf}
  BY <1>1 DEF OrderInv, OrderTypes
<1>6. BlockFits(items', block')
  BY <1>5, BlockFrame DEF OrderInv
<1>7. EntryFollows'
  <2>1. (\A u \in Threads : pc'[u] \notin Handing) => (\A u \in Threads : pc[u] \notin Handing)
    BY <1>2 DEF Locked
  <2>2. block # NoBuf => block.uid = 0
    BY DEF OrderInv, BlockFits
  <2>3. ASSUME block # NoBuf, \A u \in Threads : pc[u] \notin Handing
        PROVE  Follows(InLine', block)
    <3>1. Follows(InLine, block)
      BY <2>3 DEF OrderInv, EntryFollows
    <3> QED
      BY <1>4, <2>2, <2>3, <3>1, Zenon DEF Follows
  <2> QED
    BY <2>1, <2>3, Zenon DEF EntryFollows
<1>8. ASSUME NEW u \in Threads PROVE WriterFits(InLine', items', block', pc'[u], todo'[u])
  <2>1. CASE u = t
    <3>1. pc'[u] \notin EntryOps
      BY <1>2, <2>1 DEF EntryOps, Locked, Handing
    <3> QED
      BY <3>1, Zenon DEF WriterFits
  <2>2. CASE u # t
    <3>1. WriterFits(InLine, items, block, pc[u], todo[u]) /\ todo[u] \in Seq(Nat)
      BY <1>1 DEF OrderInv, OrderTypes
    <3>2. WriterFits(InLine', items', block, pc[u], todo[u])
      BY <1>4, <1>5, <3>1, WriterFrame
    <3> QED
      BY <1>2, <2>2, <3>2, Zenon
  <2> QED
    BY <2>1, <2>2
<1>9. ASSUME NEW u \in Threads
      PROVE  StreamFits(InLine', stream_id', items', stream'[u], pc'[u], todo'[u])
  <2>1. CASE u = t
    BY <1>2, <2>1
  <2>2. CASE u # t
    <3> DEFINE s == stream[u]
    <3>1. s \in Streams \union {NoBuf} /\ todo[u] \in Seq(Nat)
      BY <1>1 DEF OrderTypes
    <3>2. StreamFits(InLine, stream_id, items, s, pc[u], todo[u])
      BY DEF OrderInv
    <3>3. s # NoBuf => \A a \in InLine' : a \in InLine \/ a.uid # s.uid
      BY <2>2 DEF OrderInv, OwnStreamIds
    <3> HIDE DEF s
    <3>4. StreamFits(InLine', stream_id', items', s, pc[u], todo[u])
      BY <1>5, <3>1, <3>2, <3>3, StreamFrame
    <3> QED
      BY <1>2, <2>2, <3>4, Zenon DEF s
  <2> QED
    BY <2>1, <2>2
<1> QED
  BY <1>5, <1>6, <1>7, <1>8, <1>9, Zenon DEF OrderInv

(* A step of the work queue or the transport *)
LEMMA SessionStep ==
    ASSUME TypeInv, OrderInv, UNCHANGED appVars, Shrinks
    PROVE  OrderInv'
<1>1. OrderTypes
  BY OrderType
<1>2. UNCHANGED <<stream_id, stream, items, block, pc, todo>>
  BY DEF appVars, entryVars, streamVars
<1>3. InOrder(Pipeline') /\ InLine' \subseteq InLine
  BY DEF OrderInv, Shrinks
<1>4. LineFits(InLine', stream_id, items)
  BY <1>3 DEF OrderInv, LineFits
<1>5. EntryFollows'
  <2>1. EntryFollows
    BY DEF OrderInv
  <2> QED
    BY <1>2, <1>3, <2>1 DEF EntryFollows, Follows
<1>6. OwnStreamIds'
  BY <1>2 DEF OrderInv, OwnStreamIds
<1>7. ASSUME NEW u \in Threads PROVE WriterFits(InLine', items, block, pc[u], todo[u])
  <2>1. WriterFits(InLine, items, block, pc[u], todo[u])
    BY DEF OrderInv
  <2> QED
    BY <1>3, <2>1 DEF WriterFits
<1>8. ASSUME NEW u \in Threads
      PROVE  StreamFits(InLine', stream_id, items, stream[u], pc[u], todo[u])
  <2>1. StreamFits(InLine, stream_id, items, stream[u], pc[u], todo[u])
    BY DEF OrderInv
  <2>2. /\ stream_id \in Nat /\ items \in Nat /\ stream_id <= stream_id /\ items <= items
        /\ stream[u] \in Streams \union {NoBuf} /\ todo[u] \in Seq(Nat)
    BY <1>1 DEF OrderTypes
  <2>3. \A a \in InLine' : a \in InLine \/ a.uid # stream[u].uid
    BY <1>3
  <2> QED
    BY <2>1, <2>2, <2>3, StreamFrame
<1>9. stream_id > 0 /\ BlockFits(items, block)
  BY DEF OrderInv
<1> QED
  BY <1>2, <1>3, <1>4, <1>5, <1>6, <1>7, <1>8, <1>9, Zenon DEF OrderInv

-----------------------------------------------------------------------------
(* Steps of the application's threads *)

LEMMA BelowIsAhead ==
    ASSUME NEW x, NEW e, Below(x, e)
    PROVE  Ahead(x, <<e>>)
<1>1. ToSet(<<e>>) = {e}
  BY ToSetOne
<1> QED
  BY <1>1, Zenon DEF Ahead, Below

LEMMA EmptyFits ==
    ASSUME NEW x, NEW n
    PROVE  Increasing(<<>>) /\ Below(<<>>, n) /\ Ahead(x, <<>>)
  BY ToSetEmpty, IncreasingShort DEF Ahead, Below

(* Items that are newer can be added to a block. *)
LEMMA AddFits ==
    ASSUME NEW L, NEW n, NEW b \in Blocks, NEW d \in Seq(Nat),
           Increasing(d), Below(d, n), Ahead(b.data, d), Below(b.data, n), Follows(L, b),
           \A a \in L : a.uid = b.uid => Ahead(a.data, d)
    PROVE  Follows(L, AddEntry(b, d)) /\ Below(AddEntry(b, d).data, n)
<1> DEFINE c == AddEntry(b, d)
           x == b.data
<1>1. c.data = x \o d /\ c.uid = b.uid /\ c.first = b.first /\ x \in Seq(Nat)
  BY DEF AddEntry, Blocks
<1>2. Increasing(x)
  BY DEF Follows
<1>3. Ahead(x, d) /\ Below(x, n)
  OBVIOUS
<1> HIDE DEF c, x
<1>4. ToSet(x \o d) = ToSet(x) \union ToSet(d)
  BY <1>1, ToSetConcat
<1>5. Increasing(x \o d)
  BY <1>1, <1>2, <1>3, IncreasingConcat
<1>6. Below(x \o d, n)
  BY <1>3, <1>4 DEF Below
<1>7. ASSUME NEW a \in L, a.uid = b.uid PROVE Before(a, c)
  <2>1. Before(a, b) /\ Ahead(a.data, d)
    BY <1>7 DEF Follows
  <2>2. Ahead(a.data, x)
    BY <2>1 DEF Before, x
  <2>3. Ahead(a.data, x \o d)
    BY <1>4, <2>1, <2>2 DEF Ahead
  <2> QED
    BY <1>1, <2>1, <2>3, Zenon DEF Before
<1>8. Follows(L, c)
  BY <1>1, <1>5, <1>7, Zenon DEF Follows
<1> QED
  BY <1>1, <1>6, <1>8, Zenon DEF c

LEMMA EntryBlockFits ==
    ASSUME NEW L, NEW n, NEW d, Increasing(d), Below(d, n + 1),
           \A a \in L : a.uid = 0 => Ahead(a.data, d)
    PROVE  Follows(L, EntryBlock(d)) /\ BlockFits(n, EntryBlock(d))
<1> DEFINE b == EntryBlock(d)
<1>1. b.uid = 0 /\ b.data = d
  BY DEF EntryBlock
<1> HIDE DEF b
<1>2. Follows(L, b)
  BY <1>1, Zenon DEF Follows, Before
<1>3. BlockFits(n, b)
  BY <1>1, Zenon DEF BlockFits
<1> QED
  BY <1>2, <1>3 DEF b

LEMMA AppLine ==
    ASSUME NEW t \in Threads, InCall(t) \/ Call(t)
    PROVE  UNCHANGED <<reader, transport, wbuf, sent>>
  BY AppKeepsSession DEF otherThanApp, workerVars, outVars

LEMMA LineKept ==
    ASSUME NEW t \in Threads, InCall(t) \/ Call(t), processing' = processing
    PROVE  Pipeline' = Pipeline /\ InLine' = InLine
<1>1. Pipeline' = Pipeline
  BY AppLine, PipelineSame
<1> QED
  BY <1>1 DEF InLine

(* A block is handed over. *)
LEMMA LineGrows ==
    ASSUME TypeInv, OrderInv, NEW t \in Threads, InCall(t) \/ Call(t), NEW b \in Blocks,
           processing' = Append(processing, b), Follows(InLine, b),
           b.uid < stream_id, Below(b.data, items + 1)
    PROVE  /\ InOrder(Pipeline') /\ InLine' = InLine \union {b}
           /\ LineFits(InLine', stream_id, items)
<1>1. Pipeline' = Append(Pipeline, b)
  BY AppLine, PipelineAppend
<1>2. Pipeline \in Seq(Blocks) /\ InOrder(Pipeline)
  BY PipelineType DEF OrderInv
<1>3. InOrder(Append(Pipeline, b))
  BY <1>2, InOrderAppend DEF InLine
<1>4. ToSet(Append(Pipeline, b)) = ToSet(Pipeline) \union {b}
  BY <1>2, ToSetAppend
<1>5. InLine' = InLine \union {b}
  BY <1>1, <1>4, Zenon DEF InLine
<1>6. LineFits(InLine', stream_id, items)
  BY <1>5 DEF OrderInv, LineFits
<1> QED
  BY <1>1, <1>3, <1>5, <1>6, Zenon

(* write_new_block leaves a block that can follow the entries in line. *)
LEMMA NewBlockFits ==
    ASSUME NEW t \in Threads, WriterFits(InLine, items, block, pc[t], todo[t]),
           pc[t] \in EntryOps, write_new_block(t), block' # NoBuf
    PROVE  Follows(InLine, block') /\ BlockFits(items, block')
<1> DEFINE d == todo[t]
<1>1. Increasing(d) /\ Below(d, items + 1) /\ \A a \in InLine : a.uid = 0 => Ahead(a.data, d)
  BY Zenon DEF WriterFits
<1>2. /\ Increasing(<<>>) /\ Below(<<>>, items + 1)
      /\ \A a \in InLine : a.uid = 0 => Ahead(a.data, <<>>)
  BY EmptyFits
<1>3. block' = EntryBlock(d) \/ block' = EntryBlock(<<>>)
  BY DEF write_new_block
<1> HIDE DEF d
<1>4. Follows(InLine, EntryBlock(d)) /\ BlockFits(items, EntryBlock(d))
  BY <1>1, EntryBlockFits
<1>5. Follows(InLine, EntryBlock(<<>>)) /\ BlockFits(items, EntryBlock(<<>>))
  BY <1>2, EntryBlockFits
<1> QED
  BY <1>3, <1>4, <1>5, Zenon

LEMMA EntryOrder ==
    ASSUME TypeInv, TypeInv', MutexState, OrderInv, NEW t \in Threads,
           entry_lock(t) \/ EntryWrite(t)
    PROVE  OrderInv'
<1> USE DEF At, Goto
<1>0. InCall(t) \/ Call(t)
  BY DEF InCall, Call
<1>1. OrderTypes /\ OrderTypes'
  BY OrderType, OrderTypeNext
<1>2. /\ stream_id \in Nat /\ items \in Nat /\ items' \in Nat /\ InLine \subseteq Blocks
      /\ block \in Blocks \union {NoBuf} /\ todo[t] \in Seq(Nat)
  BY <1>1 DEF OrderTypes
<1>3. /\ InOrder(Pipeline) /\ LineFits(InLine, stream_id, items) /\ BlockFits(items, block)
      /\ EntryFollows /\ WriterFits(InLine, items, block, pc[t], todo[t])
  BY DEF OrderInv
<1>4. UNCHANGED <<stream_id, stream>>
  BY Zenon DEF EntryWrite, entry_lock, entry_write, entry_block_full, entry_write_retry,
               entry_write_done, streamVars
<1>5. CASE entry_lock(t)
  <2>1. /\ pc[t] = "idle" /\ mut = NoThread /\ items' = items + 1 /\ block' = block
        /\ pc' = [pc EXCEPT ![t] = "entry"] /\ todo' = [todo EXCEPT ![t] = <<items + 1>>]
        /\ processing' = processing
    BY <1>5 DEF entry_lock
  <2>2. Pipeline' = Pipeline /\ InLine' = InLine
    BY <1>0, <2>1, LineKept
  <2>3. todo'[t] = <<items + 1>> /\ \A u \in Threads : u # t => todo'[u] = todo[u]
    BY <1>1, <2>1 DEF OrderTypes
  <2>4. LineFits(InLine, stream_id, items') /\ BlockFits(items', block)
    <3>1. items <= items' /\ stream_id <= stream_id
      BY <1>2, <2>1
    <3> QED
      BY <1>2, <1>3, <3>1, LineFrame, BlockFrame
  <2>5. block # NoBuf => Follows(InLine, block)
    <3>1. \A u \in Threads : pc[u] \notin Handing
      BY <2>1, MutexAlone DEF Locked, Handing
    <3> QED
      BY <1>3, <3>1 DEF EntryFollows
  <2>6. WriterFits(InLine, items', block, "entry", todo'[t])
    <3> DEFINE e == items + 1
               d == <<e>>
    <3>1. Increasing(d)
      BY IncreasingShort
    <3>2. Below(d, items' + 1)
      <4>1. ToSet(d) = {e} /\ e < items' + 1
        BY <1>2, <2>1, ToSetOne
      <4> QED
        BY <4>1, Zenon DEF Below
    <3> HIDE DEF e
    <3>3. \A a \in InLine : a.uid = 0 => Ahead(a.data, d)
      BY <1>3, BelowIsAhead, Zenon DEF LineFits, e
    <3>4. block # NoBuf => Ahead(block.data, d)
      BY <1>3, BelowIsAhead, Zenon DEF BlockFits, e
    <3>5. todo'[t] = d
      BY <2>3 DEF e
    <3> HIDE DEF d
    <3> QED
      BY <3>1, <3>2, <3>3, <3>4, <3>5, Zenon DEF WriterFits
  <2>7. "entry" \notin StreamOps /\ pc[t] \notin StreamOps /\ items <= items'
    BY <1>2, <2>1 DEF StreamOps
  <2>8. \A a \in InLine' : a \in InLine \/ a.uid = 0
    BY <2>2
  <2> QED
    BY <1>3, <1>4, <2>1, <2>2, <2>3, <2>4, <2>5, <2>6, <2>7, <2>8, InsideStep
<1>6. CASE entry_write(t) \/ entry_write_retry(t)
  <2>1. /\ pc[t] \in EntryOps /\ items' = items /\ processing' = processing
        /\ pc' = [pc EXCEPT ![t] = "idle"] /\ todo' = [todo EXCEPT ![t] = <<>>]
    BY <1>6 DEF entry_write, entry_write_retry, entry_write_done, EntryOps
  <2>2. Pipeline' = Pipeline /\ InLine' = InLine
    BY <1>0, <2>1, LineKept
  <2>3. \A u \in Threads : u # t => todo'[u] = todo[u]
    BY <1>1, <2>1 DEF OrderTypes
  <2>4. pc[t] \in Locked /\ pc[t] \notin StreamOps /\ "idle" \notin StreamOps
        /\ "idle" \notin EntryOps /\ items <= items'
    BY <1>2, <2>1 DEF Locked, Handing, EntryOps, StreamOps
  <2>5. block' # NoBuf => Follows(InLine, block') /\ BlockFits(items, block')
    <3>1. CASE write_new_block(t)
      BY <1>3, <2>1, <3>1, NewBlockFits
    <3>2. CASE ~write_new_block(t)
      <4>1. pc[t] = "entry" /\ block # NoBuf /\ block' = AddEntry(block, todo[t])
        BY <1>6, <3>2 DEF entry_write, entry_write_retry
      <4> DEFINE d == todo[t]
      <4>2. \A u \in Threads : pc[u] \notin Handing
        <5>1. pc[t] \notin Handing
          BY <4>1 DEF Handing
        <5> QED
          BY <2>4, <5>1, MutexAlone DEF Locked
      <4>3. Follows(InLine, block) /\ block \in Blocks /\ d \in Seq(Nat)
        BY <1>2, <1>3, <4>1, <4>2 DEF EntryFollows
      <4>4. block.uid = 0 /\ Below(block.data, items + 1)
        BY <1>3, <4>1 DEF BlockFits
      <4>5. /\ Increasing(d) /\ Below(d, items + 1) /\ Ahead(block.data, d)
            /\ \A a \in InLine : a.uid = 0 => Ahead(a.data, d)
        BY <1>3, <2>1, <4>1, Zenon DEF WriterFits
      <4> HIDE DEF d
      <4>6. \A a \in InLine : a.uid = block.uid => Ahead(a.data, d)
        BY <4>4, <4>5, Zenon
      <4>7. Follows(InLine, AddEntry(block, d)) /\ Below(AddEntry(block, d).data, items + 1)
        BY <4>3, <4>4, <4>5, <4>6, AddFits
      <4>8. AddEntry(block, d).uid = 0
        BY <4>3, <4>4 DEF AddEntry, Blocks
      <4> QED
        BY <4>1, <4>7, <4>8, Zenon DEF BlockFits, d
    <3> QED
      BY <3>1, <3>2
  <2>6. BlockFits(items, block')
    BY <2>5, Zenon DEF BlockFits
  <2>7. WriterFits(InLine, items, block', "idle", todo'[t])
    BY <2>4, Zenon DEF WriterFits
  <2>8. \A a \in InLine' : a \in InLine \/ a.uid = 0
    BY <2>2
  <2> QED
    BY <1>3, <1>4, <2>1, <2>2, <2>3, <2>4, <2>5, <2>6, <2>7, <2>8, InsideStep
<1>7. CASE entry_block_full(t)
  <2>1. /\ pc[t] = "entry" /\ block # NoBuf /\ processing' = Append(processing, block)
        /\ pc' = [pc EXCEPT ![t] = "entry_submit"] /\ UNCHANGED <<todo, items, block>>
    BY <1>7 DEF entry_block_full, entryVars
  <2>2. pc[t] \in Locked /\ pc[t] \notin StreamOps /\ "entry_submit" \notin StreamOps
        /\ "entry_submit" \in Handing /\ pc[t] \notin Handing /\ items <= items'
        /\ pc[t] \in EntryOps /\ "entry_submit" \in EntryOps
    BY <1>2, <2>1 DEF Locked, Handing, EntryOps, StreamOps
  <2>3. \A u \in Threads : pc[u] \notin Handing
    BY <2>2, MutexAlone DEF Locked
  <2>4. Follows(InLine, block) /\ block.uid = 0 /\ Below(block.data, items + 1)
        /\ block \in Blocks /\ block.uid < stream_id
    BY <1>2, <1>3, <2>1, <2>3 DEF EntryFollows, BlockFits, OrderInv
  <2>5. /\ InOrder(Pipeline') /\ InLine' = InLine \union {block}
        /\ LineFits(InLine', stream_id, items)
    BY <1>0, <2>1, <2>4, LineGrows
  <2>6. WriterFits(InLine', items, block, "entry_submit", todo[t])
    BY <1>3, <2>1, <2>2, <2>5 DEF WriterFits
  <2>7. \A a \in InLine' : a \in InLine \/ a.uid = 0
    BY <2>4, <2>5
  <2> QED
    BY <1>3, <1>4, <2>1, <2>2, <2>5, <2>6, <2>7, InsideStep
<1> QED
  BY <1>5, <1>6, <1>7 DEF EntryWrite

(* A step that only moves a thread, between points outside of the critical section *)
LEMMA QuietOrder ==
    ASSUME TypeInv, TypeInv', OrderInv, NEW t \in Threads, InCall(t) \/ Call(t),
           pc[t] \notin Locked, pc[t] \notin {"stream_submit", "stream_close_submit"},
           NEW l, l \notin Locked, l \notin StreamOps, pc' = [pc EXCEPT ![t] = l],
           UNCHANGED <<block, items, stream_id, stream, processing>>,
           \A u \in Threads : u # t => todo'[u] = todo[u]
    PROVE  OrderInv'
<1>1. Pipeline' = Pipeline /\ InLine' = InLine
  BY LineKept
<1>2. /\ InOrder(Pipeline) /\ LineFits(InLine, stream_id, items) /\ OwnStreamIds
      /\ StreamFits(InLine, stream_id, items, stream[t], pc[t], todo[t])
  BY DEF OrderInv
<1>3. OwnStreamIds'
  BY <1>2 DEF OwnStreamIds
<1>4. StreamFits(InLine, stream_id, items, stream[t], l, todo'[t])
  BY <1>2, StreamIdle
<1>5. items <= items' /\ stream_id <= stream_id'
  BY OrderType DEF OrderTypes
<1>6. \A a \in InLine' : a \in InLine \/ (stream[t] # NoBuf /\ a.uid = stream[t].uid)
  BY <1>1
<1> QED
  BY <1>1, <1>2, <1>3, <1>4, <1>5, <1>6, OutsideStep

LEMMA CloseOrder ==
    ASSUME TypeInv, TypeInv', MutexState, OrderInv, NEW t \in Threads,
           close_begin(t) \/ close_lock(t) \/ Close(t)
    PROVE  OrderInv'
<1> USE DEF At, Goto
<1>0. InCall(t) \/ Call(t)
  BY DEF InCall, Call
<1>1. OrderTypes
  BY OrderType
<1>2. /\ stream_id \in Nat /\ items \in Nat /\ block \in Blocks \union {NoBuf}
  BY <1>1 DEF OrderTypes
<1>3. /\ InOrder(Pipeline) /\ LineFits(InLine, stream_id, items) /\ BlockFits(items, block)
      /\ EntryFollows
  BY DEF OrderInv
<1>4. UNCHANGED <<stream_id, stream, items, todo>>
  BY Zenon DEF Close, close_begin, close_lock, close_lock_timeout, close_block,
               close_block_submit, close_submit, streamVars
<1>5. CASE close_begin(t) \/ close_lock_timeout(t) \/ close_submit(t)
  <2>1. /\ pc[t] \in {"idle", "close", "close_submit"}
        /\ \E l \in {"idle", "close", "close_submit"} : pc' = [pc EXCEPT ![t] = l]
        /\ UNCHANGED <<block, processing>>
    BY <1>5 DEF close_begin, close_lock_timeout, close_submit, entryVars
  <2>2. PICK l \in {"idle", "close", "close_submit"} : pc' = [pc EXCEPT ![t] = l]
    BY <2>1
  <2>3. /\ pc[t] \notin Locked /\ pc[t] \notin {"stream_submit", "stream_close_submit"}
        /\ l \notin Locked /\ l \notin StreamOps
    BY <2>1 DEF Locked, Handing, StreamOps
  <2> QED
    BY <1>0, <1>4, <2>1, <2>2, <2>3, QuietOrder
<1>6. CASE close_lock(t) \/ close_block_submit(t) \/ (close_block(t) /\ block = NoBuf)
  <2>1. /\ pc[t] \in {"close", "close_block", "close_block_submit"}
        /\ pc[t] = "close" => mut = NoThread
        /\ \E l \in {"close_block", "close_submit"} : pc' = [pc EXCEPT ![t] = l]
        /\ processing' = processing
        /\ \/ block' = NoBuf
           \/ block' = block /\ pc[t] = "close"
    BY <1>6 DEF close_lock, close_block_submit, close_block
  <2>2. PICK l \in {"close_block", "close_submit"} : pc' = [pc EXCEPT ![t] = l]
    BY <2>1
  <2>3. /\ pc[t] \in Locked \/ mut = NoThread
        /\ pc[t] \notin StreamOps /\ l \notin StreamOps /\ l \notin EntryOps /\ items <= items'
    BY <1>2, <1>4, <2>1 DEF Locked, Handing, StreamOps, EntryOps
  <2>4. Pipeline' = Pipeline /\ InLine' = InLine
    BY <1>0, <2>1, LineKept
  <2>5. BlockFits(items, block') /\ (block' # NoBuf => Follows(InLine, block'))
    <3>1. CASE block' = NoBuf
      BY <3>1, Zenon DEF BlockFits
    <3>2. CASE block' = block /\ pc[t] = "close"
      <4>1. \A u \in Threads : pc[u] \notin Handing
        BY <2>3, <3>2, MutexAlone DEF Locked, Handing
      <4> QED
        BY <1>3, <3>2, <4>1 DEF EntryFollows
    <3> QED
      BY <2>1, <3>1, <3>2
  <2>6. WriterFits(InLine, items, block', l, todo'[t])
    BY <2>3, Zenon DEF WriterFits
  <2>7. \A a \in InLine' : a \in InLine \/ a.uid = 0
    BY <2>4
  <2> QED
    BY <1>3, <1>4, <2>2, <2>3, <2>4, <2>5, <2>6, <2>7, InsideStep
<1>7. CASE close_block(t) /\ block # NoBuf
  <2>1. /\ pc[t] = "close_block" /\ processing' = Append(processing, block) /\ block' = block
        /\ pc' = [pc EXCEPT ![t] = "close_block_submit"]
    BY <1>7 DEF close_block
  <2>2. pc[t] \in Locked /\ pc[t] \notin StreamOps /\ "close_block_submit" \notin StreamOps
        /\ "close_block_submit" \in Handing /\ pc[t] \notin Handing /\ items <= items'
        /\ "close_block_submit" \notin EntryOps
    BY <1>2, <1>4, <2>1 DEF Locked, Handing, EntryOps, StreamOps
  <2>3. \A u \in Threads : pc[u] \notin Handing
    BY <2>2, MutexAlone DEF Locked
  <2>4. Follows(InLine, block) /\ block.uid = 0 /\ Below(block.data, items + 1)
        /\ block \in Blocks /\ block.uid < stream_id
    BY <1>2, <1>3, <1>7, <2>3 DEF EntryFollows, BlockFits, OrderInv
  <2>5. /\ InOrder(Pipeline') /\ InLine' = InLine \union {block}
        /\ LineFits(InLine', stream_id, items)
    BY <1>0, <2>1, <2>4, LineGrows
  <2>6. WriterFits(InLine', items, block, "close_block_submit", todo[t])
    BY <2>2, Zenon DEF WriterFits
  <2>7. \A a \in InLine' : a \in InLine \/ a.uid = 0
    BY <2>4, <2>5
  <2> QED
    BY <1>3, <1>4, <2>1, <2>2, <2>5, <2>6, <2>7, InsideStep
<1> QED
  BY <1>5, <1>6, <1>7 DEF Close

-----------------------------------------------------------------------------
LEMMA OwnIdsKept ==
    ASSUME OwnStreamIds, OrderTypes, NEW t \in Threads, NEW s,
           stream' = [stream EXCEPT ![t] = s],
           s # NoBuf => stream[t] # NoBuf /\ s.uid = stream[t].uid
    PROVE  OwnStreamIds'
<1>1. stream'[t] = s /\ \A u \in Threads : u # t => stream'[u] = stream[u]
  BY DEF OrderTypes
<1> QED
  BY <1>1 DEF OwnStreamIds

LEMMA NewStreamUid ==
    ASSUME TypeInv, stream_id > 0
    PROVE  new_stream_uid \in Nat /\ new_stream_uid >= stream_id /\ new_stream_uid > 0
<1>1. stream_id \in Nat
  BY DEF TypeInv, TypeOK, StreamTypes
<1> QED
  BY <1>1 DEF new_stream_uid

LEMMA StreamOpenOrder ==
    ASSUME TypeInv, TypeInv', OrderInv, NEW t \in Threads, stream_open(t)
    PROVE  OrderInv'
<1> DEFINE k == new_stream_uid
           s == NewStream(k)
<1>0. InCall(t) \/ Call(t)
  BY DEF Call
<1>1. OrderTypes /\ OrderTypes'
  BY OrderType, OrderTypeNext
<1>2. stream_id \in Nat /\ items \in Nat /\ InLine \subseteq Blocks /\ stream_id' \in Nat
      /\ pc[t] \in Labels
  BY <1>1 DEF OrderTypes
<1>3. /\ InOrder(Pipeline) /\ LineFits(InLine, stream_id, items) /\ OwnStreamIds /\ stream_id > 0
      /\ \A u \in Threads : StreamFits(InLine, stream_id, items, stream[u], pc[u], todo[u])
  BY DEF OrderInv
<1>4. k \in Nat /\ k >= stream_id /\ k > 0
  BY <1>3, NewStreamUid
<1>5. /\ pc[t] = "idle" /\ stream[t] = NoBuf /\ stream_id' = k + 1
      /\ stream' = [stream EXCEPT ![t] = s] \/ stream' = stream
      /\ UNCHANGED <<block, pc, todo, items, processing>>
  BY Zenon DEF stream_open, At, entryVars
<1>6. /\ s.uid = k /\ s.buf.uid = k /\ s.buf.data = <<>>
  BY DEF NewStream, StreamBlock
<1> HIDE DEF k, s
<1>7. Pipeline' = Pipeline /\ InLine' = InLine
  BY <1>0, <1>5, LineKept
<1>8. stream_id <= stream_id' /\ items <= items'
  BY <1>2, <1>4, <1>5
<1>9. LineFits(InLine', stream_id', items')
  BY <1>2, <1>3, <1>5, <1>7, <1>8, LineFrame
<1>10. \A u \in Threads : u # t => stream'[u] = stream[u]
  BY <1>1, <1>5 DEF OrderTypes
<1>11. stream'[t] = NoBuf \/ stream'[t] = s
  BY <1>1, <1>5 DEF OrderTypes
<1>12. \A u \in Threads : stream[u] # NoBuf => stream[u].uid # k
  <2> SUFFICES ASSUME NEW u \in Threads, stream[u] # NoBuf PROVE stream[u].uid # k
    OBVIOUS
  <2>1. stream[u].uid < stream_id
    BY <1>3, Zenon DEF StreamFits
  <2>2. stream[u].uid \in Nat
    BY <1>1 DEF OrderTypes, Streams
  <2> QED
    BY <1>2, <1>4, <2>1, <2>2
<1>13. OwnStreamIds'
  <2>1. \A u \in Threads : stream'[u] # NoBuf =>
            IF u = t THEN stream'[u].uid = k ELSE stream'[u] = stream[u]
    BY <1>6, <1>10, <1>11
  <2> QED
    BY <1>3, <1>12, <2>1 DEF OwnStreamIds
<1>14. StreamFits(InLine', stream_id', items', stream'[t], "idle", todo'[t])
  <2>1. \A a \in InLine : a.uid # k
    BY <1>2, <1>3, <1>4 DEF LineFits, Blocks
  <2>2. Follows(InLine, s.buf) /\ Below(s.buf.data, items + 1)
    BY <1>6, <2>1, EmptyFits, Zenon DEF Follows
  <2>3. k < stream_id'
    BY <1>4, <1>5
  <2>4. StreamFits(InLine, stream_id', items, s, "idle", todo[t])
    BY <1>4, <1>6, <2>2, <2>3 DEF StreamFits
  <2>5. StreamFits(InLine, stream_id', items, NoBuf, "idle", todo[t])
    BY Zenon DEF StreamFits
  <2> QED
    BY <1>5, <1>7, <1>11, <2>4, <2>5, Zenon
<1>15. pc' = [pc EXCEPT ![t] = "idle"] /\ pc[t] \notin Locked /\ "idle" \notin Locked
  BY <1>1, <1>5 DEF OrderTypes, Locked, Handing
<1>16. \A a \in InLine' : a \in InLine \/ (stream[t] # NoBuf /\ a.uid = stream[t].uid)
  BY <1>7
<1> QED
  BY <1>3, <1>5, <1>7, <1>8, <1>9, <1>10, <1>13, <1>14, <1>15, <1>16, OutsideStep

(* What the loop of pouch_stream_write writes comes after what is in the stream's block. *)
LEMMA StreamWriteOrder ==
    ASSUME TypeInv, TypeInv', OrderInv, NEW t \in Threads, stream_write(t)
    PROVE  OrderInv'
<1> DEFINE s == stream[t]
           d == todo[t]
           h == <<Head(d)>>
           r == Tail(d)
           l == IF Len(d) = 1 THEN "idle" ELSE "stream"
           w == AddPiece(s, Head(d))
<1>0. InCall(t) \/ Call(t)
  BY DEF InCall, StreamWrite
<1>1. OrderTypes /\ OrderTypes'
  BY OrderType, OrderTypeNext
<1>2. stream_id \in Nat /\ items \in Nat /\ d \in Seq(Nat)
  BY <1>1 DEF OrderTypes
<1>3. /\ InOrder(Pipeline) /\ LineFits(InLine, stream_id, items) /\ OwnStreamIds
      /\ StreamFits(InLine, stream_id, items, s, pc[t], d)
  BY DEF OrderInv
<1>4. /\ pc[t] = "stream" /\ stream' = [stream EXCEPT ![t] = w]
      /\ todo' = [todo EXCEPT ![t] = r] /\ pc' = [pc EXCEPT ![t] = l]
      /\ UNCHANGED <<block, stream_id, items, processing>>
  BY DEF stream_write, At, Goto, entryVars
<1>5. s # NoBuf /\ d # <<>>
  BY <1>4 DEF TypeInv, CallState
<1>6. s \in Streams /\ s.buf \in Blocks /\ Head(d) \in Nat /\ h \in Seq(Nat) /\ r \in Seq(Nat)
  BY <1>1, <1>2, <1>5, HeadTailProperties DEF OrderTypes, Streams
<1>7. w.uid = s.uid /\ w.buf = AddEntry(s.buf, h) /\ w.buf.uid = s.buf.uid
  BY <1>6 DEF AddPiece, AddEntry, Streams, Blocks
<1>8. stream'[t] = w /\ todo'[t] = r
      /\ \A u \in Threads : u # t => todo'[u] = todo[u] /\ stream'[u] = stream[u]
  BY <1>1, <1>4 DEF OrderTypes
<1>9. l \notin Locked /\ pc[t] \notin Locked /\ l \in {"idle", "stream"}
  BY <1>4 DEF Locked, Handing
<1>10. /\ s.uid = s.buf.uid /\ s.uid > 0 /\ s.uid < stream_id
       /\ Follows(InLine, s.buf) /\ Below(s.buf.data, items + 1)
       /\ Increasing(d) /\ Below(d, items + 1) /\ Ahead(s.buf.data, d)
       /\ \A a \in InLine : a.uid = s.uid => Ahead(a.data, d)
  BY <1>3, <1>4, <1>5 DEF StreamFits
<1>11. ToSet(d) = ToSet(h) \union ToSet(r) /\ Increasing(r) /\ Ahead(h, r) /\ Increasing(h)
  <2>1. ToSet(d) = {Head(d)} \union ToSet(r)
    BY <1>2, <1>5, ToSetHead
  <2>2. ToSet(h) = {Head(d)}
    BY ToSetOne
  <2> QED
    BY <1>2, <1>5, <1>10, <2>1, <2>2, IncreasingTail, IncreasingShort
<1> HIDE DEF s, d, h, r, l, w
<1>12. \A x : Ahead(x, d) => Ahead(x, h) /\ Ahead(x, r)
  BY <1>11 DEF Ahead
<1>13. Below(h, items + 1) /\ Below(r, items + 1)
  BY <1>10, <1>11 DEF Below
<1>14. Follows(InLine, w.buf) /\ Below(w.buf.data, items + 1)
  <2>1. \A a \in InLine : a.uid = s.buf.uid => Ahead(a.data, h)
    BY <1>10, <1>12
  <2>2. Follows(InLine, AddEntry(s.buf, h)) /\ Below(AddEntry(s.buf, h).data, items + 1)
    BY <1>6, <1>10, <1>11, <1>12, <1>13, <2>1, AddFits
  <2> QED
    BY <1>7, <2>2, Zenon
<1>15. Ahead(w.buf.data, r)
  <2> DEFINE x == s.buf.data
  <2>1. w.buf.data = x \o h /\ x \in Seq(Nat)
    BY <1>6, <1>7 DEF AddEntry, Blocks
  <2>2. Ahead(x, r)
    BY <1>10, <1>12
  <2> HIDE DEF x
  <2>3. ToSet(x \o h) = ToSet(x) \union ToSet(h)
    BY <1>6, <2>1, ToSetConcat
  <2>4. Ahead(x \o h, r)
    BY <1>11, <2>2, <2>3 DEF Ahead
  <2> QED
    BY <2>1, <2>4, Zenon
<1>16. \A a \in InLine : a.uid = w.uid => Ahead(a.data, r)
  BY <1>7, <1>10, <1>12
<1>17. StreamFits(InLine, stream_id, items, w, l, r)
  BY <1>7, <1>9, <1>10, <1>11, <1>13, <1>14, <1>15, <1>16 DEF StreamFits
<1>18. Pipeline' = Pipeline /\ InLine' = InLine
  BY <1>0, <1>4, LineKept
<1>19. OwnStreamIds'
  BY <1>1, <1>3, <1>4, <1>5, <1>7, OwnIdsKept DEF s
<1>20. items <= items' /\ stream_id <= stream_id'
  BY <1>2, <1>4
<1>21. \A a \in InLine' : a \in InLine \/ (stream[t] # NoBuf /\ a.uid = stream[t].uid)
  BY <1>18
<1>22. StreamFits(InLine', stream_id', items', stream'[t], l, todo'[t])
  BY <1>4, <1>8, <1>17, <1>18, Zenon
<1> QED
  BY <1>3, <1>4, <1>8, <1>9, <1>18, <1>19, <1>20, <1>21, <1>22, OutsideStep

(* The items of a write are new. *)
LEMMA NewItems ==
    ASSUME NEW n \in Nat, NEW k \in Nat
    PROVE  LET d == [i \in 1..k |-> n + i]
           IN  /\ Increasing(d) /\ Below(d, n + k + 1)
               /\ \A x \in Seq(Nat) : Below(x, n + 1) => Ahead(x, d)
<1> DEFINE d == [i \in 1..k |-> n + i]
<1>1. Increasing(d)
  BY DEF Increasing
<1>2. ToSet(d) \subseteq (n + 1)..(n + k)
  BY DEF ToSet
<1> HIDE DEF d
<1>3. Below(d, n + k + 1)
  BY <1>2 DEF Below
<1>4. ASSUME NEW x \in Seq(Nat), Below(x, n + 1) PROVE Ahead(x, d)
  <2>1. ToSet(x) \subseteq Nat
    BY ToSetType
  <2> QED
    BY <1>2, <1>4, <2>1 DEF Ahead, Below
<1> QED
  BY <1>1, <1>3, <1>4, Zenon DEF d

LEMMA StreamBeginOrder ==
    ASSUME TypeInv, TypeInv', OrderInv, NEW t \in Threads, NEW k \in 1..MaxWrite,
           stream_write_begin(t, k)
    PROVE  OrderInv'
<1> DEFINE s == stream[t]
           d == [i \in 1..k |-> items + i]
<1>0. InCall(t) \/ Call(t)
  BY DEF Call
<1>1. OrderTypes /\ OrderTypes'
  BY OrderType, OrderTypeNext
<1>2. /\ stream_id \in Nat /\ items \in Nat /\ items' \in Nat /\ InLine \subseteq Blocks
      /\ k \in Nat
  BY <1>1, ConstantsAssumption DEF OrderTypes
<1>3. /\ InOrder(Pipeline) /\ LineFits(InLine, stream_id, items) /\ OwnStreamIds
      /\ StreamFits(InLine, stream_id, items, s, pc[t], todo[t])
  BY DEF OrderInv
<1>4. /\ pc[t] = "idle" /\ s # NoBuf /\ items' = items + k /\ todo' = [todo EXCEPT ![t] = d]
      /\ pc' = [pc EXCEPT ![t] = "stream"]
      /\ UNCHANGED <<block, stream_id, stream, processing>>
  BY Zenon DEF stream_write_begin, At, Goto, entryVars, streamVars, stream_is_valid
<1>5. Increasing(d) /\ Below(d, items + k + 1)
      /\ \A x \in Seq(Nat) : Below(x, items + 1) => Ahead(x, d)
  BY <1>2, NewItems
<1>6. todo'[t] = d /\ \A u \in Threads : u # t => todo'[u] = todo[u]
  BY <1>1, <1>4 DEF OrderTypes
<1>7. s \in Streams /\ s.buf \in Blocks /\ s.buf.data \in Seq(Nat)
  BY <1>1, <1>4 DEF OrderTypes, Streams, Blocks
<1> HIDE DEF s, d
<1>8. /\ s.uid = s.buf.uid /\ s.uid > 0 /\ s.uid < stream_id
      /\ Follows(InLine, s.buf) /\ Below(s.buf.data, items + 1)
  BY <1>3, <1>4 DEF StreamFits
<1>9. items <= items' /\ stream_id <= stream_id'
  BY <1>2, <1>4
<1>10. Pipeline' = Pipeline /\ InLine' = InLine
  BY <1>0, <1>4, LineKept
<1>11. LineFits(InLine', stream_id', items')
  BY <1>2, <1>3, <1>4, <1>9, <1>10, LineFrame
<1>12. \A a \in InLine : Ahead(a.data, d)
  BY <1>2, <1>3, <1>5 DEF LineFits, Blocks
<1>13. Below(s.buf.data, items' + 1) /\ Ahead(s.buf.data, d) /\ Below(d, items' + 1)
  <2>1. Below(s.buf.data, items' + 1)
    BY <1>2, <1>7, <1>8, <1>9, BelowMore
  <2>2. Ahead(s.buf.data, d)
    BY <1>5, <1>7, <1>8
  <2> QED
    BY <1>4, <1>5, <2>1, <2>2, Zenon
<1>14. StreamFits(InLine, stream_id, items', s, "stream", d)
  BY <1>5, <1>8, <1>12, <1>13 DEF StreamFits
<1>15. OwnStreamIds'
  BY <1>3, <1>4 DEF OwnStreamIds
<1>16. StreamFits(InLine', stream_id', items', stream'[t], "stream", todo'[t])
  BY <1>4, <1>6, <1>10, <1>14, Zenon DEF s
<1>17. pc[t] \notin Locked /\ "stream" \notin Locked
  BY <1>4 DEF Locked, Handing
<1>18. \A a \in InLine' : a \in InLine \/ (stream[t] # NoBuf /\ a.uid = stream[t].uid)
  BY <1>10
<1>19. \A u \in Threads : u # t => todo'[u] = todo[u] /\ stream'[u] = stream[u]
  BY <1>4, <1>6
<1> QED
  BY <1>3, <1>4, <1>9, <1>10, <1>11, <1>15, <1>16, <1>17, <1>18, <1>19, OutsideStep

(* A block of a stream is handed over, with more to write or as the last one. *)
LEMMA StreamHandOver ==
    ASSUME TypeInv, TypeInv', OrderInv, NEW t \in Threads,
           stream_block_full(t) \/ stream_close_enqueue(t)
    PROVE  OrderInv'
<1> DEFINE s == stream[t]
<1>0. InCall(t) \/ Call(t)
  BY DEF InCall, StreamWrite, StreamClose
<1>1. OrderTypes /\ OrderTypes'
  BY OrderType, OrderTypeNext
<1>2. stream_id \in Nat /\ items \in Nat
  BY <1>1 DEF OrderTypes
<1>3. OwnStreamIds /\ StreamFits(InLine, stream_id, items, s, pc[t], todo[t])
  BY DEF OrderInv
<1>4. /\ UNCHANGED <<block, stream_id, stream, items, todo>>
      /\ pc[t] \in {"stream", "stream_close"}
  BY DEF stream_block_full, stream_close_enqueue, entryVars, streamVars, At
<1>5. s # NoBuf
  BY <1>4 DEF TypeInv, CallState
<1>6. s \in Streams /\ s.buf \in Blocks
  BY <1>1, <1>5 DEF OrderTypes, Streams
<1>7. /\ s.uid = s.buf.uid /\ s.uid > 0 /\ s.uid < stream_id /\ s.uid \in Nat
      /\ Follows(InLine, s.buf) /\ Below(s.buf.data, items + 1)
  BY <1>3, <1>4, <1>5, <1>6 DEF StreamFits, Streams
<1>8. \E m \in BOOLEAN, l \in {"stream_submit", "stream_close_submit"} :
          /\ processing' = Append(processing, FinishStream(s.buf, m))
          /\ pc' = [pc EXCEPT ![t] = l]
          /\ l = "stream_submit" => ~m /\ pc[t] = "stream"
  <2>1. CASE stream_block_full(t)
    BY <2>1 DEF stream_block_full, At, Goto
  <2>2. CASE stream_close_enqueue(t)
    BY <2>2 DEF stream_close_enqueue, At, Goto
  <2> QED
    BY <2>1, <2>2
<1>9. PICK m \in BOOLEAN, l \in {"stream_submit", "stream_close_submit"} :
          /\ processing' = Append(processing, FinishStream(s.buf, m))
          /\ pc' = [pc EXCEPT ![t] = l]
          /\ l = "stream_submit" => ~m /\ pc[t] = "stream"
  BY <1>8, Zenon
<1> DEFINE c == FinishStream(s.buf, m)
<1>10. /\ c \in Blocks /\ c.uid = s.uid /\ c.data = s.buf.data /\ c.first = s.buf.first
       /\ c.last = m
  BY <1>6, <1>7 DEF FinishStream, Blocks
<1> HIDE DEF s, c
<1>11. Follows(InLine, c)
  BY <1>7, <1>10, Zenon DEF Follows, Before
<1>12. c.uid < stream_id /\ Below(c.data, items + 1) /\ processing' = Append(processing, c)
  BY <1>7, <1>9, <1>10, Zenon DEF c
<1>13. /\ InOrder(Pipeline') /\ InLine' = InLine \union {c}
       /\ LineFits(InLine', stream_id, items)
  BY <1>0, <1>10, <1>11, <1>12, LineGrows
<1>14. StreamFits(InLine', stream_id, items, s, l, todo[t])
  <2>1. CASE l = "stream_close_submit"
    BY <1>7, <2>1 DEF StreamFits
  <2>2. CASE l = "stream_submit"
    <3>1. /\ Increasing(todo[t]) /\ Below(todo[t], items + 1)
          /\ \A a \in InLine : a.uid = s.uid => Ahead(a.data, todo[t])
          /\ Ahead(c.data, todo[t])
      BY <1>3, <1>5, <1>9, <1>10, <2>2 DEF StreamFits, s
    <3>2. \A a \in InLine : a.uid = s.uid => ~a.last
      BY <1>7 DEF Follows, Before
    <3>3. ~c.last
      BY <1>9, <1>10, <2>2
    <3> QED
      BY <1>7, <1>13, <2>2, <3>1, <3>2, <3>3 DEF StreamFits
  <2> QED
    BY <2>1, <2>2
<1>15. OwnStreamIds'
  BY <1>3, <1>4 DEF OwnStreamIds
<1>16. pc[t] \notin Locked /\ l \notin Locked /\ items <= items' /\ stream_id <= stream_id'
  BY <1>2, <1>4 DEF Locked, Handing
<1>17. \A a \in InLine' : a \in InLine \/ (stream[t] # NoBuf /\ a.uid = stream[t].uid)
  BY <1>5, <1>10, <1>13, Zenon DEF s
<1>18. StreamFits(InLine', stream_id', items', stream'[t], l, todo'[t])
  BY <1>4, <1>14, Zenon DEF s
<1> QED
  BY <1>4, <1>9, <1>13, <1>15, <1>16, <1>17, <1>18, OutsideStep

(* The stream gets its next block, or is gone. *)
LEMMA StreamNextOrder ==
    ASSUME TypeInv, TypeInv', OrderInv, NEW t \in Threads,
           stream_submit(t) \/ stream_close_submit(t) \/ stream_close(t)
    PROVE  OrderInv'
<1> DEFINE s == stream[t]
           w == [s EXCEPT !.buf = StreamBlock(s, FALSE)]
<1>0. InCall(t) \/ Call(t)
  BY DEF InCall, Call, StreamWrite, StreamClose
<1>1. OrderTypes /\ OrderTypes'
  BY OrderType, OrderTypeNext
<1>2. stream_id \in Nat /\ items \in Nat /\ todo[t] \in Seq(Nat) /\ pc \in [Threads -> Labels]
  BY <1>1 DEF OrderTypes
<1>3. /\ InOrder(Pipeline) /\ LineFits(InLine, stream_id, items) /\ OwnStreamIds
      /\ StreamFits(InLine, stream_id, items, s, pc[t], todo[t])
  BY DEF OrderInv
<1>4. /\ UNCHANGED <<block, stream_id, items, todo, processing>>
  BY Zenon DEF stream_submit, stream_close_submit, stream_close, entryVars
<1>5. Pipeline' = Pipeline /\ InLine' = InLine
  BY <1>0, <1>4, LineKept
<1>6. items <= items' /\ stream_id <= stream_id'
  BY <1>2, <1>4
<1>7. \A a \in InLine' : a \in InLine \/ (stream[t] # NoBuf /\ a.uid = stream[t].uid)
  BY <1>5
<1>8. CASE stream_submit(t)
  <2>1. /\ pc[t] = "stream_submit" /\ pc' = [pc EXCEPT ![t] = "stream"]
        /\ stream' = [stream EXCEPT ![t] = w]
    BY <1>8 DEF stream_submit, At, Goto
  <2>2. s # NoBuf
    BY <2>1 DEF TypeInv, CallState
  <2>3. s \in Streams
    BY <1>1, <2>2 DEF OrderTypes
  <2>4. w.uid = s.uid /\ w.buf.uid = s.uid /\ w.buf.data = <<>> /\ w.buf.first = FALSE
    BY <2>3 DEF StreamBlock, Streams
  <2>5. stream'[t] = w /\ \A u \in Threads : u # t => stream'[u] = stream[u]
    BY <1>1, <2>1 DEF OrderTypes
  <2>6. OwnStreamIds'
    <3> HIDE DEF w
    <3> QED
      BY <1>1, <1>3, <2>1, <2>2, <2>4, OwnIdsKept
  <2> HIDE DEF s, w
  <2>7. /\ s.uid > 0 /\ s.uid < stream_id
        /\ \A a \in InLine : a.uid = s.uid => ~a.last
        /\ Increasing(todo[t]) /\ Below(todo[t], items + 1)
        /\ \A a \in InLine : a.uid = s.uid => Ahead(a.data, todo[t])
    BY <1>3, <2>1, <2>2 DEF StreamFits
  <2>8. Follows(InLine, w.buf) /\ Below(w.buf.data, items + 1)
    BY <2>4, <2>7, EmptyFits, Zenon DEF Follows, Before
  <2>9. Ahead(w.buf.data, todo[t])
    BY <2>4, ToSetEmpty DEF Ahead
  <2>10. StreamFits(InLine, stream_id, items, w, "stream", todo[t])
    BY <2>4, <2>7, <2>8, <2>9 DEF StreamFits
  <2>11. StreamFits(InLine', stream_id', items', stream'[t], "stream", todo'[t])
    BY <1>4, <1>5, <2>5, <2>10, Zenon
  <2>12. pc[t] \notin Locked /\ "stream" \notin Locked
    BY <2>1 DEF Locked, Handing
  <2> QED
    BY <1>3, <1>4, <1>5, <1>6, <1>7, <2>1, <2>5, <2>6, <2>11, <2>12, OutsideStep
<1>9. CASE stream_close_submit(t) \/ (stream_close(t) /\ stream' # stream)
  <2>1. /\ pc[t] \in {"idle", "stream_close_submit"} /\ pc' = [pc EXCEPT ![t] = "idle"]
        /\ stream' = [stream EXCEPT ![t] = NoBuf]
    <3>1. CASE stream_close_submit(t)
      BY <3>1 DEF stream_close_submit, At, Goto
    <3>2. CASE stream_close(t) /\ stream' # stream
      BY <1>2, <3>2 DEF stream_close, At
    <3> QED
      BY <1>9, <3>1, <3>2
  <2>2. stream'[t] = NoBuf /\ \A u \in Threads : u # t => stream'[u] = stream[u]
    BY <1>1, <2>1 DEF OrderTypes
  <2>3. OwnStreamIds'
    BY <1>3, <2>2 DEF OwnStreamIds
  <2>4. StreamFits(InLine', stream_id', items', stream'[t], "idle", todo'[t])
    BY <2>2, Zenon DEF StreamFits
  <2>5. pc[t] \notin Locked /\ "idle" \notin Locked
    BY <2>1 DEF Locked, Handing
  <2> QED
    BY <1>3, <1>4, <1>5, <1>6, <1>7, <2>1, <2>2, <2>3, <2>4, <2>5, OutsideStep
<1>10. CASE stream_close(t) /\ stream' = stream
  <2>1. pc[t] = "idle" /\ \E l \in {"idle", "stream_close"} : pc' = [pc EXCEPT ![t] = l]
    BY <1>2, <1>10 DEF stream_close, At, Goto
  <2>2. PICK l \in {"idle", "stream_close"} : pc' = [pc EXCEPT ![t] = l]
    BY <2>1
  <2>3. /\ pc[t] \notin Locked /\ pc[t] \notin {"stream_submit", "stream_close_submit"}
        /\ l \notin Locked /\ l \notin StreamOps
    BY <2>1 DEF Locked, Handing, StreamOps
  <2> QED
    BY <1>0, <1>4, <1>10, <2>2, <2>3, QuietOrder
<1> QED
  BY <1>8, <1>9, <1>10

LEMMA StreamShortOrder ==
    ASSUME TypeInv, TypeInv', OrderInv, NEW t \in Threads, stream_write_short(t)
    PROVE  OrderInv'
<1>0. InCall(t) \/ Call(t)
  BY DEF InCall, StreamWrite
<1>1. /\ pc[t] = "stream" /\ pc' = [pc EXCEPT ![t] = "idle"]
      /\ todo' = [todo EXCEPT ![t] = <<>>]
      /\ UNCHANGED <<block, items, stream_id, stream, processing>>
  BY DEF stream_write_short, At, Goto, entryVars, streamVars
<1>2. \A u \in Threads : u # t => todo'[u] = todo[u]
  BY <1>1, OrderType DEF OrderTypes
<1>3. /\ pc[t] \notin Locked /\ pc[t] \notin {"stream_submit", "stream_close_submit"}
      /\ "idle" \notin Locked /\ "idle" \notin StreamOps
  BY <1>1 DEF Locked, Handing, StreamOps
<1> QED
  BY <1>0, <1>1, <1>2, <1>3, QuietOrder

LEMMA AppOrder ==
    ASSUME TypeInv, TypeInv', MutexState, OrderInv, NEW t \in Threads, InCall(t) \/ Call(t)
    PROVE  OrderInv'
<1>1. CASE entry_lock(t) \/ EntryWrite(t)
  BY <1>1, EntryOrder
<1>2. CASE close_begin(t) \/ close_lock(t) \/ Close(t)
  BY <1>2, CloseOrder
<1>3. CASE stream_open(t)
  BY <1>3, StreamOpenOrder
<1>4. CASE \E n \in 1..MaxWrite : stream_write_begin(t, n)
  BY <1>4, StreamBeginOrder
<1>5. CASE stream_write(t)
  BY <1>5, StreamWriteOrder
<1>6. CASE stream_write_short(t)
  BY <1>6, StreamShortOrder
<1>7. CASE stream_block_full(t) \/ stream_close_enqueue(t)
  BY <1>7, StreamHandOver
<1>8. CASE stream_submit(t) \/ stream_close_submit(t) \/ stream_close(t)
  BY <1>8, StreamNextOrder
<1> QED
  BY <1>1, <1>2, <1>3, <1>4, <1>5, <1>6, <1>7, <1>8, Zenon
     DEF InCall, Call, StreamWrite, StreamClose

-----------------------------------------------------------------------------
LEMMA OrderInit == Init => OrderInv
<1> SUFFICES ASSUME Init PROVE OrderInv
  OBVIOUS
<1>1. /\ sent = <<>> /\ stream_id = 1 /\ block = NoBuf
      /\ pc = [t \in Threads |-> "idle"] /\ stream = [t \in Threads |-> NoBuf]
  BY DEF Init
<1>2. Waiting = <<>>
  BY ServiceInit DEF Service!Init
<1>3. Pipeline = <<>>
  <2>1. Sent = <<>>
    BY <1>1 DEF Sent
  <2>2. <<>> \o <<>> = <<>>
    BY EmptySeq, ConcatEmptySeq
  <2> QED
    BY <1>2, <2>1, <2>2, PipelineParts, Zenon
<1>4. InLine = {} /\ InOrder(Pipeline)
  BY <1>3, ToSetEmpty DEF InLine, InOrder
<1>5. LineFits(InLine, stream_id, items) /\ BlockFits(items, block) /\ EntryFollows
  BY <1>1, <1>4, Zenon DEF LineFits, BlockFits, EntryFollows
<1>6. \A t \in Threads : pc[t] \notin EntryOps /\ stream[t] = NoBuf
  BY <1>1 DEF EntryOps
<1>7. ASSUME NEW t \in Threads
      PROVE  /\ WriterFits(InLine, items, block, pc[t], todo[t])
             /\ StreamFits(InLine, stream_id, items, stream[t], pc[t], todo[t])
  BY <1>6, Zenon DEF WriterFits, StreamFits
<1>8. OwnStreamIds /\ stream_id > 0
  BY <1>1, <1>6 DEF OwnStreamIds
<1> QED
  BY <1>4, <1>5, <1>7, <1>8, Zenon DEF OrderInv

LEMMA OrderStep ==
    ASSUME TypeInv, TypeInv', OwnInv, LineInv, OrderInv, [Next]_vars
    PROVE  OrderInv'
<1>1. CASE \E t \in Threads : InCall(t) \/ Call(t)
  BY <1>1, AppOrder DEF OwnInv
<1>2. CASE process_blocks
  <2>1. UNCHANGED appVars
    BY <1>2, Zenon DEF process_blocks, work_start, process_loop, process_loop_open,
           process_loop_queue, process_encrypt, process_encrypt_fail, process_header,
           process_header_null, process_put, process_exit, process_close, otherThanWorker
  <2> QED
    BY <1>2, <2>1, WorkerShrinks, SessionStep
<1>3. CASE pouch_uplink_start
  <2>1. UNCHANGED appVars
    BY <1>3, Zenon DEF pouch_uplink_start, start_begin, start_session, start_crypto,
           start_crypto_fail, start_pouch, start_header, start_header_fail, start_done,
           otherThanTransport
  <2> QED
    BY <1>3, <2>1, StartShrinks, SessionStep
<1>4. CASE pouch_uplink_fill
  <2>1. UNCHANGED appVars
    BY <1>4, Zenon DEF pouch_uplink_fill, fill_begin, fill_next, fill_copy_part,
           fill_copy_rest, fill_check_open, fill_check_empty, fill_end, otherThanTransport
  <2> QED
    BY <1>4, <2>1, FillShrinks, SessionStep
<1>5. CASE pouch_uplink_finish
  <2>1. UNCHANGED appVars
    BY <1>5, Zenon DEF pouch_uplink_finish, finish_flush, finish_id, finish_clear, finish_end,
           otherThanTransport
  <2> QED
    BY <1>5, <2>1, FinishShrinks, SessionStep
<1>6. CASE dispatch_events \/ UNCHANGED vars
  <2>1. UNCHANGED <<appVars, reader, transport, wbuf, processing, sent>>
    BY <1>6, Zenon DEF dispatch_events, vars, outVars, workerVars
  <2>2. Shrinks
    BY <2>1, PipelineSame, ShrinksSame
  <2> QED
    BY <2>1, <2>2, SessionStep
<1> QED
  BY <1>1, <1>2, <1>3, <1>4, <1>5, <1>6 DEF Next

LEMMA Ordered == Spec => [](TypeInv /\ OrderInv)
<1>1. Init => TypeInv /\ OwnInv /\ LineInv /\ OrderInv
  BY TypeInit, OwnInit, LineInit, OrderInit
<1>2. TypeInv /\ OwnInv /\ LineInv /\ OrderInv /\ [Next]_vars
          => TypeInv' /\ OwnInv' /\ LineInv' /\ OrderInv'
  BY TypeStep, OwnStep, LineStep, OrderStep
<1> QED
  BY <1>1, <1>2, PTL DEF Spec

(* Whoever writes what and when, and whatever is lost on the way: the items of a source
   leave in the order they were written in, each at most once. *)
THEOREM ItemsStayInOrder == Spec => []InOrderOnce
<1>1. TypeInv /\ OrderInv => InOrderOnce
  <2> SUFFICES ASSUME TypeInv, OrderInv PROVE InOrderOnce
    OBVIOUS
  <2> DEFINE w == Pipeline
  <2>1. w \in Seq(Blocks) /\ InOrder(w)
    BY PipelineType DEF OrderInv
  <2>2. DOMAIN w \subseteq Nat
    BY <2>1, LenProperties
  <2> HIDE DEF w
  <2>3. ASSUME NEW p \in DOMAIN w, NEW q \in DOMAIN w, p <= q, w[p].uid = w[q].uid,
               NEW i \in DOMAIN w[p].data, NEW j \in DOMAIN w[q].data, p < q \/ i < j
        PROVE  w[p].data[i] < w[q].data[j]
    <3>1. CASE p < q
      <4>1. Ahead(w[p].data, w[q].data)
        BY <2>1, <2>3, <3>1, Zenon DEF InOrder, Before
      <4>2. w[p].data[i] \in ToSet(w[p].data) /\ w[q].data[j] \in ToSet(w[q].data)
        BY Zenon DEF ToSet
      <4> QED
        BY <4>1, <4>2, Zenon DEF Ahead
    <3>2. CASE ~(p < q)
      <4>1. p = q /\ i < j
        BY <2>2, <2>3, <3>2
      <4> QED
        BY <2>1, <4>1, Zenon DEF InOrder, Increasing
    <3> QED
      BY <3>1, <3>2
  <2> QED
    BY <2>3, Zenon DEF InOrderOnce, w
<1> QED
  BY <1>1, Ordered, PTL

(* The gateway sees the blocks of a stream between the one marked first and the one
   marked last, however streams, entries and failures interleave. *)
THEOREM StreamsStayFramed == Spec => []StreamFraming
<1>1. OrderInv => StreamFraming
  BY Zenon DEF OrderInv, InOrder, Before, StreamFraming
<1> QED
  BY <1>1, Ordered, PTL
================================================================================
