---------------------------- MODULE Video_proofs ----------------------------
(***************************************************************************)
(* Theorems about the video of both sides, for any regions of the desktop, *)
(* any devices, sizes and formats, any number of frames and any order of   *)
(* calls. First the ledger of a codec context, which the encoder and the   *)
(* decoder share; then the sending side (capturer and encoder); then the   *)
(* receiving side (decoder and the two renderers).                         *)
(***************************************************************************)
EXTENDS HostVideo, ViewerVideo, FiniteSetTheorems, SequenceTheorems, TLAPS

-----------------------------------------------------------------------------
(* The ledger of a codec context.                                          *)

InOrder(s) == \A i, j \in 1..Len(s) : i < j => s[i] < s[j]

\* Units come out of a codec in the order they went in: rep came before ins,
\* and n comes next.
Streams(ins, rep, n) ==
    /\ ins \in Seq(Nat) /\ rep \in Seq(Nat) /\ n \in Nat
    /\ InOrder(ins) /\ InOrder(rep)
    /\ \A i \in 1..Len(rep), j \in 1..Len(ins) : rep[i] < ins[j]
    /\ \A j \in 1..Len(ins) : ins[j] < n
    /\ \A i \in 1..Len(rep) : rep[i] < n

\* At most l of the units acc are in neither.
Kept(ins, rep, acc, l) ==
    /\ l \in Nat /\ IsFiniteSet(acc)
    /\ Cardinality(acc \ (Range(ins) \cup Range(rep))) <= l

Ledger(c, acc, rep, l, n) ==
    /\ c \in [inside : Seq(Nat), draining : BOOLEAN]
    /\ Streams(c.inside, rep, n)
    /\ Kept(c.inside, rep, acc, l)

-----------------------------------------------------------------------------
LEMMA FewerMissing ==
    ASSUME NEW X, IsFiniteSet(X), NEW l \in Nat, Cardinality(X) <= l, NEW u, NEW Y
    PROVE  /\ Y \subseteq X => Cardinality(Y) <= l
           /\ Y \subseteq X \cup {u} => Cardinality(Y) <= l + 1
<1>1. Cardinality(X) \in Nat
  BY FS_CardinalityType
<1>2. ASSUME Y \subseteq X PROVE Cardinality(Y) <= l
  <2>1. IsFiniteSet(Y) /\ Cardinality(Y) <= Cardinality(X)
    BY <1>2, FS_Subset
  <2> QED BY <1>1, <2>1, FS_CardinalityType
<1>3. ASSUME Y \subseteq X \cup {u} PROVE Cardinality(Y) <= l + 1
  <2>1. /\ IsFiniteSet(X \cup {u})
        /\ Cardinality(X \cup {u}) \in {Cardinality(X), Cardinality(X) + 1}
    BY FS_AddElement
  <2>2. IsFiniteSet(Y) /\ Cardinality(Y) <= Cardinality(X \cup {u})
    BY <1>3, <2>1, FS_Subset
  <2>3. Cardinality(Y) \in Nat
    BY <2>2, FS_CardinalityType
  <2> QED BY <1>1, <2>1, <2>2, <2>3
<1> QED BY <1>2, <1>3

LEMMA RangeSeq ==
    ASSUME NEW s \in Seq(Nat), NEW x
    PROVE  x \in Range(s) <=> \E i \in 1..Len(s) : s[i] = x
BY DEF Range

LEMMA RangeAppend ==
    ASSUME NEW s \in Seq(Nat), NEW n \in Nat
    PROVE  \A x : x \in Range(Append(s, n)) <=> x \in Range(s) \/ x = n
<1> TAKE x
<1>1. /\ Append(s, n) \in Seq(Nat) /\ Len(Append(s, n)) = Len(s) + 1 /\ Len(s) \in Nat
      /\ \A i \in 1..Len(s) : Append(s, n)[i] = s[i]
      /\ Append(s, n)[Len(s) + 1] = n
  BY AppendProperties, LenProperties
<1>2. /\ x \in Range(s) <=> \E i \in 1..Len(s) : s[i] = x
      /\ x \in Range(Append(s, n)) <=>
           \E i \in 1..Len(Append(s, n)) : Append(s, n)[i] = x
  BY <1>1, RangeSeq
<1> QED BY <1>1, <1>2

LEMMA RangeHead ==
    ASSUME NEW s \in Seq(Nat), s # <<>>
    PROVE  \A x : x \in Range(s) <=> x \in Range(Tail(s)) \/ x = Head(s)
<1> TAKE x
<1>1. /\ Tail(s) \in Seq(Nat) /\ Len(Tail(s)) = Len(s) - 1 /\ Len(s) \in Nat \ {0}
      /\ \A i \in 1..Len(Tail(s)) : Tail(s)[i] = s[i + 1]
      /\ Head(s) = s[1]
  BY HeadTailProperties, EmptySeq
<1>2. /\ x \in Range(s) <=> \E i \in 1..Len(s) : s[i] = x
      /\ x \in Range(Tail(s)) <=> \E i \in 1..Len(Tail(s)) : Tail(s)[i] = x
  BY <1>1, RangeSeq
<1>3. \A i \in 1..Len(s) : i # 1 => i - 1 \in 1..Len(Tail(s)) /\ s[i] = Tail(s)[i - 1]
  BY <1>1
<1> QED BY <1>1, <1>2, <1>3

\* A unit that the codec takes goes behind all others.
LEMMA LedgerSend ==
    ASSUME NEW c, NEW acc, NEW rep, NEW l, NEW n, Ledger(c, acc, rep, l, n)
    PROVE  Ledger(Accepted(c, n), acc \cup {n}, rep, l, n + 1)
<1> USE DEF Ledger
<1>1. PICK s : s = c.inside
  OBVIOUS
<1>2. PICK t : t = Append(s, n)
  OBVIOUS
<1>3. /\ t \in Seq(Nat) /\ Len(t) = Len(s) + 1 /\ Len(s) \in Nat
      /\ \A i \in 1..Len(s) : t[i] = s[i]
      /\ t[Len(s) + 1] = n
  BY <1>1, <1>2, AppendProperties, LenProperties DEF Streams
<1>4. /\ Accepted(c, n) \in [inside : Seq(Nat), draining : BOOLEAN]
      /\ Accepted(c, n).inside = t
  BY <1>1, <1>2, <1>3 DEF Accepted
<1>5. Streams(t, rep, n + 1)
  <2>1. /\ s \in Seq(Nat) /\ rep \in Seq(Nat) /\ n \in Nat /\ Len(rep) \in Nat
        /\ \A i \in 1..Len(s) : s[i] \in Nat
        /\ \A i \in 1..Len(rep) : rep[i] \in Nat
    BY <1>1, ElementOfSeq, LenProperties DEF Streams
  <2>2. \A i \in 1..Len(t) : IF i = Len(s) + 1 THEN t[i] = n
                             ELSE i \in 1..Len(s) /\ t[i] = s[i]
    BY <1>3
  <2>3. /\ \A i, j \in 1..Len(s) : i < j => s[i] < s[j]
        /\ \A i \in 1..Len(s) : s[i] < n
        /\ \A i \in 1..Len(rep) : rep[i] < n
        /\ \A i \in 1..Len(rep), j \in 1..Len(s) : rep[i] < s[j]
    BY <1>1 DEF Streams, InOrder
  <2>4. ASSUME NEW i \in 1..Len(t), NEW j \in 1..Len(t), i < j PROVE t[i] < t[j]
    <3>1. i \in 1..Len(s) /\ t[i] = s[i]
      BY <1>3, <2>4
    <3> QED BY <2>2, <2>3, <2>4, <3>1
  <2>5. \A i \in 1..Len(t) : t[i] < n + 1
    BY <2>1, <2>2, <2>3
  <2>6. \A i \in 1..Len(rep) : rep[i] < n + 1
    BY <2>1, <2>3
  <2>7. \A i \in 1..Len(rep), j \in 1..Len(t) : rep[i] < t[j]
    BY <2>2, <2>3
  <2> QED BY <1>1, <1>3, <2>1, <2>4, <2>5, <2>6, <2>7 DEF Streams, InOrder
<1>6. Kept(t, rep, acc \cup {n}, l)
  <2>1. IsFiniteSet(acc \cup {n})
    BY FS_AddElement DEF Kept
  <2>2. (acc \cup {n}) \ (Range(t) \cup Range(rep)) \subseteq acc \ (Range(s) \cup Range(rep))
    BY <1>1, <1>2, RangeAppend DEF Streams
  <2>3. IsFiniteSet(acc \ (Range(s) \cup Range(rep)))
    BY FS_Subset DEF Kept
  <2> QED BY <1>1, <2>1, <2>2, <2>3, FewerMissing DEF Kept
<1> QED BY <1>4, <1>5, <1>6

\* A number that is not used.
LEMMA LedgerSkip ==
    ASSUME NEW c, NEW acc, NEW rep, NEW l, NEW n, Ledger(c, acc, rep, l, n)
    PROVE  Ledger(c, acc, rep, l, n + 1)
<1>1. /\ \A i \in 1..Len(c.inside) : c.inside[i] \in Nat
      /\ \A i \in 1..Len(rep) : rep[i] \in Nat
  BY ElementOfSeq DEF Ledger, Streams
<1> QED BY <1>1, SMTT(30) DEF Ledger, Streams

LEMMA LedgerEmpty ==
    ASSUME NEW n \in Nat
    PROVE  Ledger(EmptyCodec, {}, <<>>, 0, n)
<1>1. Cardinality({} \ (Range(<<>>) \cup Range(<<>>))) = 0 /\ IsFiniteSet({})
  BY FS_EmptySet
<1>2. Streams(<<>>, <<>>, n)
  BY DEF Streams, InOrder
<1>3. Kept(<<>>, <<>>, {}, 0)
  BY <1>1 DEF Kept
<1> QED BY <1>2, <1>3 DEF Ledger, EmptyCodec

\* The oldest unit leaves the codec: for the caller, or for good.
LEMMA LedgerGone ==
    ASSUME NEW c, NEW acc, NEW rep, NEW l, NEW n, Ledger(c, acc, rep, l, n),
           c.inside # <<>>
    PROVE  /\ Ledger(Gone(c), acc, Append(rep, Head(c.inside)), l, n)
           /\ Ledger(Gone(c), acc, rep, l + 1, n)
<1> USE DEF Ledger
<1>1. PICK s, t, h, out :
        s = c.inside /\ t = Tail(s) /\ h = Head(s) /\ out = Append(rep, h)
  OBVIOUS
<1>2. /\ t \in Seq(Nat) /\ Len(t) = Len(s) - 1 /\ Len(s) \in Nat \ {0} /\ Len(t) \in Nat
      /\ \A i \in 1..Len(t) : t[i] = s[i + 1]
      /\ h = s[1] /\ h \in Nat /\ \A i \in 1..Len(s) : s[i] \in Nat
  BY <1>1, HeadTailProperties, EmptySeq, LenProperties, ElementOfSeq DEF Streams
<1>3. /\ out \in Seq(Nat) /\ Len(out) = Len(rep) + 1 /\ Len(rep) \in Nat
      /\ \A i \in 1..Len(rep) : out[i] = rep[i] /\ rep[i] \in Nat
      /\ out[Len(rep) + 1] = h
  BY <1>1, <1>2, AppendProperties, LenProperties, ElementOfSeq DEF Streams
<1>4. /\ Gone(c) \in [inside : Seq(Nat), draining : BOOLEAN]
      /\ Gone(c).inside = t
  BY <1>1, <1>2 DEF Gone
<1>5. /\ \A i, j \in 1..Len(s) : i < j => s[i] < s[j]
      /\ \A i, j \in 1..Len(rep) : i < j => rep[i] < rep[j]
      /\ \A i \in 1..Len(s) : s[i] < n
      /\ \A i \in 1..Len(rep) : rep[i] < n
      /\ \A i \in 1..Len(rep), j \in 1..Len(s) : rep[i] < s[j]
      /\ n \in Nat /\ rep \in Seq(Nat)
  BY <1>1 DEF Streams, InOrder
<1>6. \A i \in 1..Len(t) : i + 1 \in 1..Len(s) /\ t[i] = s[i + 1] /\ h < t[i]
  BY <1>2, <1>5
<1>7. Streams(t, rep, n)
  <2>1. ASSUME NEW i \in 1..Len(t), NEW j \in 1..Len(t), i < j PROVE t[i] < t[j]
    <3>1. i + 1 < j + 1
      BY <1>2, <2>1
    <3> QED BY <1>5, <1>6, <3>1
  <2>2. \A i \in 1..Len(rep), j \in 1..Len(t) : rep[i] < t[j]
    BY <1>5, <1>6
  <2>3. \A j \in 1..Len(t) : t[j] < n
    BY <1>5, <1>6
  <2> QED BY <1>2, <1>5, <2>1, <2>2, <2>3 DEF Streams, InOrder
<1>8. Streams(t, out, n)
  <2>1. \A i \in 1..Len(out) : IF i = Len(rep) + 1 THEN out[i] = h
                               ELSE i \in 1..Len(rep) /\ out[i] = rep[i]
    BY <1>3
  <2>2. 1 \in 1..Len(s)
    BY <1>2
  <2>3. ASSUME NEW i \in 1..Len(out), NEW j \in 1..Len(out), i < j PROVE out[i] < out[j]
    <3>1. i \in 1..Len(rep) /\ out[i] = rep[i]
      BY <1>3, <2>3
    <3> QED BY <1>2, <1>5, <2>1, <2>2, <2>3, <3>1
  <2>4. \A i \in 1..Len(out), j \in 1..Len(t) : out[i] < t[j]
    BY <1>5, <1>6, <2>1
  <2>5. \A i \in 1..Len(out) : out[i] < n
    BY <1>2, <1>5, <2>1, <2>2
  <2> QED BY <1>3, <1>7, <2>3, <2>4, <2>5 DEF Streams, InOrder
<1>9. /\ Kept(s, rep, acc, l)
      /\ \A x : x \in Range(s) <=> x \in Range(t) \/ x = h
      /\ \A x : x \in Range(out) <=> x \in Range(rep) \/ x = h
  BY <1>1, <1>2, <1>5, RangeHead, RangeAppend DEF Streams
<1>10. IsFiniteSet(acc \ (Range(s) \cup Range(rep)))
  BY <1>9, FS_Subset DEF Kept
<1>11. Kept(t, rep, acc, l + 1)
  <2>1. acc \ (Range(t) \cup Range(rep)) \subseteq (acc \ (Range(s) \cup Range(rep))) \cup {h}
    BY <1>9
  <2>2. l \in Nat /\ l + 1 \in Nat /\ IsFiniteSet(acc)
        /\ Cardinality(acc \ (Range(s) \cup Range(rep))) <= l
    BY <1>9 DEF Kept
  <2>3. Cardinality(acc \ (Range(t) \cup Range(rep))) <= l + 1
    <3>1. PICK X, Y : /\ X = acc \ (Range(s) \cup Range(rep))
                      /\ Y = acc \ (Range(t) \cup Range(rep))
      OBVIOUS
    <3>2. IsFiniteSet(X) /\ Cardinality(X) <= l /\ Y \subseteq X \cup {h}
      BY <1>10, <2>1, <2>2, <3>1
    <3>3. Cardinality(Y) <= l + 1
      BY <2>2, <3>2, FewerMissing, Zenon
    <3> QED BY <3>1, <3>3
  <2> QED BY <2>2, <2>3 DEF Kept
<1>12. Kept(t, out, acc, l)
  <2>1. acc \ (Range(t) \cup Range(out)) \subseteq acc \ (Range(s) \cup Range(rep))
    BY <1>9
  <2> QED BY <1>9, <1>10, <2>1, FewerMissing DEF Kept
<1> QED BY <1>1, <1>4, <1>7, <1>8, <1>11, <1>12

LEMMA LedgerReceive ==
    ASSUME NEW c, NEW acc, NEW rep, NEW l, NEW n, Ledger(c, acc, rep, l, n),
           NEW owing \in BOOLEAN, NEW r \in ReceiveAnswers(c, owing)
    PROVE  /\ r.ret # "ok" => Ledger(r.codec, acc, rep, l + r.lost, n)
           /\ r.ret = "ok" => /\ Ledger(r.codec, acc, Append(rep, r.unit), l + r.lost, n)
                              /\ Ledger(r.codec, acc, rep, l + 1, n)
<1>1. l \in Nat /\ l + 0 = l
  BY DEF Ledger, Kept
<1>2. CASE c.inside = <<>>
  <2>1. r.ret # "ok" /\ r.codec = c /\ r.lost = 0
    BY <1>2 DEF ReceiveAnswers
  <2> QED BY <1>1, <2>1
<1>3. CASE c.inside # <<>>
  <2>1. \/ /\ r.ret = "ok" /\ r.unit = Head(c.inside) /\ r.codec = Gone(c) /\ r.lost = 0
        \/ r.ret = "error" /\ r.codec = Gone(c) /\ r.lost = 1
        \/ r.ret = "again" /\ r.codec = c /\ r.lost = 0
    BY <1>3 DEF ReceiveAnswers
  <2> QED BY <1>1, <1>3, <2>1, LedgerGone
<1> QED BY <1>2, <1>3

\* A prefix of what is inside is given to the caller.
LEMMA LedgerPrefix ==
    ASSUME NEW s \in Seq(Nat), NEW acc, NEW rep, NEW l, NEW n, Streams(s, rep, n),
           Kept(s, rep, acc, l), NEW k \in 0..Len(s)
    PROVE  /\ Streams(SubSeq(s, k + 1, Len(s)), rep \o SubSeq(s, 1, k), n)
           /\ Kept(SubSeq(s, k + 1, Len(s)), rep \o SubSeq(s, 1, k), acc, l)
<1>1. PICK t, p, out : t = SubSeq(s, k + 1, Len(s)) /\ p = SubSeq(s, 1, k) /\ out = rep \o p
  OBVIOUS
<1>2. /\ Len(s) \in Nat /\ k \in Nat /\ n \in Nat
      /\ \A i \in 1..Len(s) : s[i] \in Nat /\ s[i] < n
      /\ rep \in Seq(Nat) /\ Len(rep) \in Nat
      /\ \A i \in 1..Len(rep) : rep[i] \in Nat /\ rep[i] < n
      /\ \A i, j \in 1..Len(s) : i < j => s[i] < s[j]
      /\ \A i, j \in 1..Len(rep) : i < j => rep[i] < rep[j]
      /\ \A i \in 1..Len(rep), j \in 1..Len(s) : rep[i] < s[j]
  BY LenProperties, ElementOfSeq DEF Streams, InOrder
<1>3. /\ t \in Seq(Nat) /\ Len(t) = Len(s) - k
      /\ \A i \in 1..Len(t) : t[i] = s[k + i] /\ k + i \in 1..Len(s)
  <2>1. /\ t \in Seq(Nat)
        /\ Len(t) = IF k + 1 <= Len(s) THEN Len(s) - (k + 1) + 1 ELSE 0
        /\ \A i \in 1..(Len(s) - (k + 1) + 1) : t[i] = s[k + 1 + i - 1]
    BY <1>1, <1>2, SubSeqProperties
  <2> QED BY <1>2, <2>1
<1>4. /\ p \in Seq(Nat) /\ Len(p) = k
      /\ \A i \in 1..k : p[i] = s[i] /\ i \in 1..Len(s)
  <2>1. /\ p \in Seq(Nat)
        /\ Len(p) = IF 1 <= k THEN k - 1 + 1 ELSE 0
        /\ \A i \in 1..(k - 1 + 1) : p[i] = s[1 + i - 1]
    BY <1>1, <1>2, SubSeqProperties
  <2> QED BY <1>2, <2>1
<1>5. /\ out \in Seq(Nat) /\ Len(out) = Len(rep) + k
      /\ \A i \in 1..Len(out) : out[i] = IF i <= Len(rep) THEN rep[i] ELSE p[i - Len(rep)]
  <2>1. /\ out \in Seq(Nat) /\ Len(out) = Len(rep) + Len(p)
        /\ \A i \in 1..Len(rep) + Len(p) : out[i] = IF i <= Len(rep) THEN rep[i] ELSE p[i - Len(rep)]
    BY <1>1, <1>2, <1>4, ConcatProperties
  <2> QED BY <1>2, <1>4, <2>1
<1>6. \A i \in 1..Len(out) :
        IF i <= Len(rep) THEN i \in 1..Len(rep) /\ out[i] = rep[i]
        ELSE /\ i - Len(rep) \in 1..k /\ i - Len(rep) \in 1..Len(s)
             /\ out[i] = s[i - Len(rep)]
  BY <1>2, <1>4, <1>5, SMTT(30)
<1>7. Streams(t, out, n)
  <2>1. ASSUME NEW i \in 1..Len(t), NEW j \in 1..Len(t), i < j PROVE t[i] < t[j]
    <3>1. k + i < k + j
      BY <1>2, <1>3, <2>1
    <3> QED BY <1>2, <1>3, <3>1
  <2>2. ASSUME NEW i \in 1..Len(out), NEW j \in 1..Len(out), i < j PROVE out[i] < out[j]
    <3>1. CASE j <= Len(rep)
      BY <1>2, <1>6, <2>2, <3>1
    <3>2. CASE i <= Len(rep) /\ ~(j <= Len(rep))
      BY <1>2, <1>6, <2>2, <3>2
    <3>3. CASE ~(i <= Len(rep))
      <4>1. ~(j <= Len(rep)) /\ i - Len(rep) < j - Len(rep)
        BY <1>2, <1>5, <2>2, <3>3
      <4> QED BY <1>2, <1>6, <3>3, <4>1
    <3> QED BY <1>2, <1>5, <2>2, <3>1, <3>2, <3>3
  <2>3. ASSUME NEW i \in 1..Len(out), NEW j \in 1..Len(t) PROVE out[i] < t[j]
    <3>1. CASE i <= Len(rep)
      BY <1>2, <1>3, <1>6, <3>1
    <3>2. CASE ~(i <= Len(rep))
      <4>1. i - Len(rep) < k + j
        BY <1>2, <1>3, <1>6, <3>2
      <4> QED BY <1>2, <1>3, <1>6, <3>2, <4>1
    <3> QED BY <3>1, <3>2
  <2>4. \A j \in 1..Len(t) : t[j] < n
    BY <1>2, <1>3
  <2>5. \A i \in 1..Len(out) : out[i] < n
    BY <1>2, <1>6
  <2> QED BY <1>2, <1>3, <1>5, <2>1, <2>2, <2>3, <2>4, <2>5 DEF Streams, InOrder
<1>8. Kept(t, out, acc, l)
  <2>1. ASSUME NEW i \in 1..Len(s), ~(i <= k) PROVE s[i] \in Range(t)
    <3>1. i - k \in 1..Len(t) /\ t[i - k] = s[i]
      BY <1>2, <1>3, <2>1
    <3> QED BY <1>3, <3>1, RangeSeq
  <2>2. ASSUME NEW i \in 1..Len(s), i <= k PROVE s[i] \in Range(out)
    <3>1. Len(rep) + i \in 1..Len(out) /\ out[Len(rep) + i] = s[i]
      <4>1. Len(rep) + i \in 1..Len(out) /\ ~(Len(rep) + i <= Len(rep))
            /\ Len(rep) + i - Len(rep) = i
        BY <1>2, <1>5, <2>2
      <4> QED BY <1>6, <4>1
    <3> QED BY <1>5, <3>1, RangeSeq
  <2>3. ASSUME NEW i \in 1..Len(rep) PROVE rep[i] \in Range(out)
    <3>1. i \in 1..Len(out) /\ i <= Len(rep)
      BY <1>2, <1>5
    <3> QED BY <1>5, <1>6, <3>1, RangeSeq
  <2>4. Range(s) \cup Range(rep) \subseteq Range(t) \cup Range(out)
    <3>1. ASSUME NEW x \in Range(s) PROVE x \in Range(t) \cup Range(out)
      <4>1. PICK i \in 1..Len(s) : s[i] = x
        BY <3>1, RangeSeq
      <4> QED BY <2>1, <2>2, <4>1
    <3>2. ASSUME NEW x \in Range(rep) PROVE x \in Range(out)
      <4>1. PICK i \in 1..Len(rep) : rep[i] = x
        BY <1>2, <3>2, RangeSeq
      <4> QED BY <2>3, <4>1
    <3> QED BY <3>1, <3>2
  <2>5. acc \ (Range(t) \cup Range(out)) \subseteq acc \ (Range(s) \cup Range(rep))
    BY <2>4
  <2>6. IsFiniteSet(acc \ (Range(s) \cup Range(rep)))
    BY FS_Subset DEF Kept
  <2> QED BY <2>5, <2>6, FewerMissing DEF Kept
<1> QED BY <1>1, <1>7, <1>8

\* A context that has refused input has lost a unit when it is received to make
\* room and dropped.
LEMMA AgainLoses ==
    ASSUME NEW c, NEW acc, NEW rep, NEW l, NEW n, Ledger(c, acc, rep, l, n),
           c.inside # <<>>, NEW r \in ReceiveAnswers(c, TRUE)
    PROVE  Ledger(r.codec, acc, rep, l + 1, n)
<1>1. r.ret = "ok" \/ (r.ret = "error" /\ r.lost = 1)
  BY DEF ReceiveAnswers
<1> QED BY <1>1, LedgerReceive

\* The codec is drained: k units are given to the caller, and the next receive
\* ends it.
LEMMA LedgerDrain ==
    ASSUME NEW n, NEW k \in 0..Len(codec.inside), NEW r,
           Ledger(codec, accepted, reported, lost, n), Drain(k, r)
    PROVE  Ledger(codec, accepted, reported, lost, n)'
<1>1. Ledger(Drained(k), accepted, reported \o SubSeq(codec.inside, 1, k), lost, n)
  <2>1. PICK t : t = SubSeq(codec.inside, k + 1, Len(codec.inside))
    OBVIOUS
  <2>2. Drained(k).inside = t /\ Drained(k).draining = TRUE
        /\ Drained(k) = [inside |-> t, draining |-> TRUE]
    BY <2>1 DEF Drained
  <2>3. /\ Streams(t, reported \o SubSeq(codec.inside, 1, k), n)
        /\ Kept(t, reported \o SubSeq(codec.inside, 1, k), accepted, lost)
    BY <2>1, LedgerPrefix DEF Ledger
  <2>4. t \in Seq(Nat)
    BY <2>3 DEF Streams
  <2> QED BY <2>2, <2>3, <2>4 DEF Ledger
<1>2. r \in ReceiveAnswers(Drained(k), FALSE) /\ r.ret # "ok"
  BY DEF Drain
<1>3. Ledger(r.codec, accepted, reported \o SubSeq(codec.inside, 1, k), lost + r.lost, n)
  BY <1>1, <1>2, LedgerReceive
<1> QED BY <1>3 DEF Drain

\* What is inside is dropped, and is not missed.
LEMMA LedgerDrop ==
    ASSUME NEW c, NEW acc, NEW rep, NEW l, NEW n, Ledger(c, acc, rep, l, n)
    PROVE  Ledger(EmptyCodec, acc \ Range(c.inside), rep, l, n)
<1>1. Streams(<<>>, rep, n)
  BY DEF Ledger, Streams, InOrder
<1>2. Kept(<<>>, rep, acc \ Range(c.inside), l)
  <2>1. IsFiniteSet(acc \ Range(c.inside))
    BY FS_Subset DEF Ledger, Kept
  <2>2. (acc \ Range(c.inside)) \ (Range(<<>>) \cup Range(rep))
          \subseteq acc \ (Range(c.inside) \cup Range(rep))
    OBVIOUS
  <2>3. IsFiniteSet(acc \ (Range(c.inside) \cup Range(rep)))
    BY FS_Subset DEF Ledger, Kept
  <2> QED BY <2>1, <2>2, <2>3, FewerMissing DEF Ledger, Kept
<1> QED BY <1>1, <1>2 DEF Ledger, EmptyCodec

LEMMA LedgerAccounts ==
    ASSUME NEW n, Ledger(codec, accepted, reported, lost, n)
    PROVE  Accounted
BY DEF Ledger, Streams, Kept, InOrder, Accounted, Missing

-----------------------------------------------------------------------------
(* The capturer.                                                           *)

Pointer == {"null", "set", "garbage"}

\* The members and the references they stand for.
CapturerTyped ==
    /\ exists \in BOOLEAN /\ is_initialized_ \in BOOLEAN
    /\ is_running_ \in BOOLEAN /\ held \in BOOLEAN
    /\ ptr \in [Objects -> Pointer]
    /\ refs \in [Objects -> Nat]
    /\ fault \in {"none", "capture", "release"}
    /\ changes \in [Regions -> {"no", "dirty", "moved"}]

\* What a capturer that is not there, and one that was never initialized, has.
Closed ==
    /\ ~exists => \A o \in Objects : ptr[o] = "null"
    /\ ~is_initialized_ => ~is_running_ /\ \A o \in Objects : refs[o] = 0
    /\ is_initialized_ => exists

\* An initialized capturer holds one of each, but for a duplication whose
\* recreation has failed.
Opened ==
    is_initialized_ =>
        \A o \in Objects :
            \/ ptr[o] = "set" /\ refs[o] = 1
            \/ /\ o = "dup" /\ ptr[o] = "null" /\ refs[o] = 0
               /\ "recreate" \in failed

\* A pointer that names nothing was left by an Initialize that failed, or is
\* output_, which the constructor does not write.
Dangling ==
    ~is_initialized_ =>
        \A o \in Objects :
            /\ ptr[o] = "set" => "initialize" \in failed
            /\ ptr[o] = "garbage" => o = "output"

Owned == fault = "none" => Closed /\ Opened /\ Dangling

\* What the encoder's codec took is in it, was given to the caller, or may have
\* been lost; a Flush that succeeds empties it.
EncoderBooks ==
    /\ Ledger(codec, accepted, reported, lost, enc_frame_count_)
    /\ answer = "flushed" => codec.inside = <<>>

IInv ==
    /\ CapturerTyped
    /\ Owned
    /\ FaultOnlyAfterFailure
    /\ ChangesReported
    /\ KeyRequestLostOnlyAs
    /\ EncoderBooks

-----------------------------------------------------------------------------
(* The encoder.                                                            *)

LEMMA EncodeKeepsRequest ==
    ASSUME KeyRequestLostOnlyAs, Encode
    PROVE  KeyRequestLostOnlyAs'
<1>1. force_keyframe_' = FALSE
  BY DEF Encode
<1>2. Taken \/ NotTaken
  BY DEF Encode, SendFrame, SendFrameAgain
<1>3. CASE Taken
  BY <1>1, <1>3 DEF Taken, KeyRequestLostOnlyAs
<1>4. CASE NotTaken
  BY <1>1, <1>4 DEF NotTaken, KeyRequestLostOnlyAs
<1> QED BY <1>2, <1>3, <1>4

LEMMA LifecycleKeepsRequest ==
    ASSUME KeyRequestLostOnlyAs, EncoderLifecycle
    PROVE  KeyRequestLostOnlyAs'
<1>1. CASE CreateVideoEncoder \/ EncoderDestroyed
  BY <1>1 DEF CreateVideoEncoder, EncoderDestroyed, KeyRequestLostOnlyAs
<1>2. CASE SoftwareInitialize \/ HardwareInitialize
  BY <1>2 DEF SoftwareInitialize, HardwareInitialize, Reopened, KeyRequestLostOnlyAs
<1>3. CASE SoftwareShutdown \/ HardwareShutdown
  BY <1>3 DEF SoftwareShutdown, HardwareShutdown, KeyRequestLostOnlyAs
<1>4. CASE Flush
  BY <1>4 DEF Flush, KeyRequestLostOnlyAs
<1> QED BY <1>1, <1>2, <1>3, <1>4 DEF EncoderLifecycle

LEMMA ProcessOutputBooks ==
    ASSUME NEW c, NEW d \in Nat, NEW m,
           Ledger(c, accepted', reported, lost + d, m), ProcessOutput(c, d)
    PROVE  Ledger(codec', accepted', reported', lost', m) /\ answer' # "flushed"
<1>1. PICK r \in ReceiveAnswers(c, FALSE) :
        /\ codec' = r.codec
        /\ reported' = IF r.ret = "ok" THEN Append(reported, r.unit) ELSE reported
        /\ lost' = lost + d + r.lost
        /\ answer' = CASE r.ret = "ok" -> "true"
                       [] r.ret = "error" -> "err"
                       [] OTHER -> "false"
  BY DEF ProcessOutput
<1>2. Ledger(r.codec, accepted', reported', lost + d + r.lost, m)
  BY <1>1, LedgerReceive
<1>3. answer' \in {"true", "err", "false"}
  BY <1>1
<1> QED BY <1>1, <1>2, <1>3

LEMMA EncodeBooks ==
    ASSUME EncoderBooks, Encode
    PROVE  EncoderBooks'
<1> DEFINE n == enc_frame_count_
<1>1. Ledger(codec, accepted, reported, lost, n) /\ lost \in Nat /\ lost + 0 = lost
  BY DEF EncoderBooks, Ledger, Kept
<1>2. enc_frame_count_' = n + 1
  BY DEF Encode
<1> SUFFICES Ledger(codec', accepted', reported', lost', n + 1) /\ answer' # "flushed"
  BY <1>2 DEF EncoderBooks
<1>3. CASE Taken /\ ProcessOutput(Accepted(codec, n), 0)
  <2>1. Ledger(Accepted(codec, n), accepted', reported, lost + 0, n + 1)
    BY <1>1, <1>3, LedgerSend DEF Taken
  <2> QED BY <1>3, <2>1, ProcessOutputBooks
<1>4. CASE NotTaken /\ ProcessOutput(codec, 0)
  <2>1. Ledger(codec, accepted', reported, lost + 0, n + 1)
    BY <1>1, <1>4, LedgerSkip DEF NotTaken
  <2> QED BY <1>4, <2>1, ProcessOutputBooks
<1>5. CASE NotTaken /\ answer' = "err" /\ UNCHANGED <<codec, reported, lost>>
  BY <1>1, <1>5, LedgerSkip DEF NotTaken
<1>6. CASE SendFrameAgain(n)
  <2>1. codec.inside # <<>>
    BY <1>6 DEF SendFrameAgain, SendAnswers
  <2>2. PICK r \in ReceiveAnswers(codec, TRUE) :
          \/ r.ret = "ok" /\ Taken /\ ProcessOutput(Accepted(r.codec, n), 1)
          \/ /\ NotTaken /\ answer' = "err" /\ codec' = r.codec
             /\ lost' = lost + 1 /\ UNCHANGED reported
    BY <1>6 DEF SendFrameAgain
  <2>3. Ledger(r.codec, accepted, reported, lost + 1, n)
    BY <1>1, <2>1, <2>2, AgainLoses
  <2>4. CASE r.ret = "ok" /\ Taken /\ ProcessOutput(Accepted(r.codec, n), 1)
    <3>1. Ledger(Accepted(r.codec, n), accepted', reported, lost + 1, n + 1)
      BY <2>3, <2>4, LedgerSend DEF Taken
    <3> QED BY <2>4, <3>1, ProcessOutputBooks
  <2>5. CASE /\ NotTaken /\ answer' = "err" /\ codec' = r.codec
             /\ lost' = lost + 1 /\ UNCHANGED reported
    BY <2>3, <2>5, LedgerSkip DEF NotTaken
  <2> QED BY <2>2, <2>4, <2>5
<1> QED BY <1>3, <1>4, <1>5, <1>6 DEF Encode, SendFrame

LEMMA LifecycleBooks ==
    ASSUME EncoderBooks, EncoderLifecycle
    PROVE  EncoderBooks'
<1>1. enc_frame_count_ \in Nat
  BY DEF EncoderBooks, Ledger, Streams
<1>2. CASE NoHistory /\ enc_frame_count_' \in Nat
  <2>1. Ledger(EmptyCodec, {}, <<>>, 0, enc_frame_count_')
    BY <1>2, LedgerEmpty
  <2> QED BY <1>2, <2>1 DEF NoHistory, CodecAfresh, EncoderBooks
<1>3. CASE Flush
  <2>1. CASE UNCHANGED codecVars /\ answer' = "err"
    BY <1>3, <2>1 DEF Flush, codecVars, EncoderBooks
  <2>2. ASSUME NEW k \in 0..Len(codec.inside), NEW r \in ReceiveAnswers(Drained(k), FALSE),
               Drain(k, r), answer' = IF r.ret = "error" THEN "err" ELSE "flushed"
        PROVE  EncoderBooks'
    <3>1. Ledger(codec, accepted, reported, lost, enc_frame_count_)'
      <4>1. Ledger(codec', accepted', reported', lost', enc_frame_count_)
        BY <2>2, LedgerDrain DEF EncoderBooks
      <4> QED BY <1>3, <4>1 DEF Flush
    <3>2. answer' = "flushed" => codec'.inside = <<>>
      <4>1. r.ret # "ok" /\ codec' = r.codec
        BY <2>2 DEF Drain
      <4>2. Drained(k).draining
        BY DEF Drained
      <4> QED BY <2>2, <4>1, <4>2 DEF ReceiveAnswers
    <3> QED BY <3>1, <3>2 DEF EncoderBooks
  <2> QED BY <1>3, <2>1, <2>2 DEF Flush
<1> QED BY <1>1, <1>2, <1>3
           DEF EncoderLifecycle, CreateVideoEncoder, SoftwareInitialize,
               HardwareInitialize, Reopened, SoftwareShutdown, HardwareShutdown,
               EncoderDestroyed

-----------------------------------------------------------------------------
(* The rects of a frame.                                                   *)

\* A change that is in neither list of a frame is a move that was not read.
LEMMA ChangeIsListed ==
    ASSUME NEW dirtyRead \in BOOLEAN, NEW moveRead \in BOOLEAN,
           changes \in [Regions -> {"no", "dirty", "moved"}],
           NEW r \in Regions, changes[r] # "no",
           r \notin ExtractDirtyRects(dirtyRead),
           r \notin ExtractMoveRects(moveRead)
    PROVE  changes[r] = "moved" /\ ~(config_.move /\ moveRead)
<1>1. changes[r] \in {"dirty", "moved"}
  OBVIOUS
<1>2. changes[r] # "dirty"
  BY DEF ExtractDirtyRects, Changed
<1>3. ~(config_.move /\ moveRead)
  BY <1>1, <1>2 DEF ExtractMoveRects, Changed
<1> QED BY <1>1, <1>2, <1>3

LEMMA FrameReportsChanges ==
    ASSUME CapturerTyped, ChangesReported, CaptureFrame
    PROVE  ChangesReported'
<1>1. PICK first \in BOOLEAN, dirtyRead \in BOOLEAN, moveRead \in BOOLEAN :
        LET listed == IF should_force_key_frame_ \/ first THEN Regions
                     ELSE ExtractDirtyRects(dirtyRead) \cup ExtractMoveRects(moveRead)
            changed == {r \in Regions : changes[r] # "no"}
            movesRead == config_.move /\ moveRead
        IN /\ unseen' = (unseen \cup changed) \ listed
           /\ excused' = (excused \cup (IF movesRead THEN {} ELSE Changed("moved"))) \ listed
  BY DEF CaptureFrame
<1> DEFINE listed == IF should_force_key_frame_ \/ first THEN Regions
                    ELSE ExtractDirtyRects(dirtyRead) \cup ExtractMoveRects(moveRead)
<1>2. ASSUME NEW r \in unseen', r \notin unseen
      PROVE  r \in excused'
  <2>1. r \in Regions /\ changes[r] # "no" /\ r \notin listed
    BY <1>1, <1>2
  <2>2. r \notin ExtractDirtyRects(dirtyRead) /\ r \notin ExtractMoveRects(moveRead)
    BY <2>1
  <2>3. changes[r] = "moved" /\ ~(config_.move /\ moveRead)
    BY <2>1, <2>2, ChangeIsListed DEF CapturerTyped
  <2> QED BY <1>1, <2>1, <2>3 DEF Changed
<1>3. ASSUME NEW r \in unseen', r \in unseen
      PROVE  r \in excused'
  BY <1>1, <1>3 DEF ChangesReported
<1> QED BY <1>2, <1>3 DEF ChangesReported

LEMMA CaptureKeepsChanges ==
    ASSUME CapturerTyped, ChangesReported, CaptureNext
    PROVE  ChangesReported'
<1>1. CASE CaptureFrame
  BY <1>1, FrameReportsChanges
<1>2. CASE CaptureDropped
  BY <1>2 DEF CaptureDropped, ChangesReported
<1>3. CASE Initialize \/ Shutdown
  BY <1>3 DEF Initialize, Shutdown, NothingUnseen, ChangesReported
<1>4. CASE RecreateOutputDuplication
  BY <1>4 DEF RecreateOutputDuplication, NothingUnseen, ChangesReported
<1>5. CASE UNCHANGED <<unseen, excused>>
  BY <1>5 DEF ChangesReported
<1> QED
  BY <1>1, <1>2, <1>3, <1>4, <1>5
     DEF CaptureNext, Construct, InitializeFails, Start, Stop, CapturerForceKeyFrame,
         Draw, CaptureThroughNothing, ReleaseFrame, LoseAccess, RemoveGpu, metaVars

-----------------------------------------------------------------------------
(* The objects and their pointers.                                         *)

Whole == CapturerTyped /\ Owned /\ FaultOnlyAfterFailure

LEMMA ObjectSet == Objects = {"device", "context", "output", "dup", "staging"}
BY DEF Objects

LEMMA ConstructKeeps ==
    ASSUME Whole, fault = "none", Construct
    PROVE  Whole'
<1> USE DEF Whole
<1>1. PICK p \in {"null", "garbage"} : ptr' = [ptr EXCEPT !["output"] = p]
  BY DEF Construct
<1>2. "output" \in Objects
  BY ObjectSet
<1>3. CapturerTyped'
  BY <1>1, <1>2 DEF Construct, CapturerTyped, Pointer
<1>4. \A o \in Objects : ptr'[o] \in {ptr[o], p}
  BY <1>1, <1>2 DEF CapturerTyped
<1>5. ~is_initialized_ /\ ~is_initialized_' /\ \A o \in Objects : ptr[o] = "null"
  BY DEF Construct, Owned, Closed
<1>6. \A o \in Objects : o # "output" => ptr'[o] = ptr[o]
  BY <1>1 DEF CapturerTyped
<1>7. Owned'
  BY <1>1, <1>4, <1>5, <1>6 DEF Construct, Owned, Closed, Opened, Dangling
<1>8. FaultOnlyAfterFailure'
  BY DEF Construct, FaultOnlyAfterFailure
<1> QED BY <1>3, <1>7, <1>8

LEMMA InitializeFailsKeeps ==
    ASSUME Whole, fault = "none", InitializeFails
    PROVE  Whole'
<1> USE DEF Whole
<1>1. PICK s \in Steps, written \in BOOLEAN :
        /\ ptr' = [o \in Objects |->
                     IF o \in s.made THEN "set"
                     ELSE IF written /\ o \in s.fails THEN "null" ELSE ptr[o]]
        /\ failed' = failed \cup (IF s.made = {} THEN {} ELSE {"initialize"})
  BY DEF InitializeFails
<1>2. \A o \in Objects : ptr'[o] \in {"set", "null", ptr[o]}
  BY <1>1
<1>3. CapturerTyped'
  BY <1>1 DEF InitializeFails, CapturerTyped, Pointer
<1>4. ASSUME NEW o \in Objects, ptr'[o] = "set"
      PROVE  "initialize" \in failed'
  <2>1. CASE o \in s.made
    BY <1>1, <2>1
  <2>2. CASE o \notin s.made
    BY <1>1, <1>4, <2>2 DEF InitializeFails, Owned, Dangling
  <2> QED BY <2>1, <2>2
<1>5. \A o \in Objects : ptr'[o] = "garbage" => ptr[o] = "garbage"
  BY <1>2
<1>6. Owned'
  BY <1>4, <1>5 DEF InitializeFails, Owned, Closed, Opened, Dangling
<1>7. FaultOnlyAfterFailure'
  BY DEF InitializeFails, FaultOnlyAfterFailure
<1> QED BY <1>3, <1>6, <1>7

LEMMA InitializeKeeps ==
    ASSUME Whole, fault = "none", Initialize
    PROVE  Whole'
<1> USE DEF Whole
<1>1. \A o \in Objects : ptr'[o] = "set" /\ refs'[o] = 1
  BY DEF Initialize, Owned, Closed
<1>2. CapturerTyped'
  BY DEF Initialize, CapturerTyped, Pointer, Redrawn
<1>3. Owned'
  BY <1>1 DEF Initialize, Owned, Closed, Opened, Dangling
<1>4. FaultOnlyAfterFailure'
  BY DEF Initialize, FaultOnlyAfterFailure
<1> QED BY <1>2, <1>3, <1>4

\* Steps that touch no object.
LEMMA RunningKeeps ==
    ASSUME Whole, fault = "none", Start \/ Stop
    PROVE  Whole'
BY DEF Whole, Start, Stop, metaVars, CapturerTyped, Owned, Closed, Opened,
       Dangling, FaultOnlyAfterFailure

LEMMA FrameKeeps ==
    ASSUME Whole, fault = "none",
           \/ CaptureFrame \/ CaptureDropped \/ CapturerForceKeyFrame
           \/ ReleaseFrame \/ LoseAccess \/ RemoveGpu \/ Draw
    PROVE  Whole'
<1> USE DEF Whole
<1>1. UNCHANGED <<exists, ptr, refs, is_initialized_, is_running_, fault, failed>>
  BY DEF CaptureFrame, CaptureDropped, Acquires, CapturerForceKeyFrame, objVars,
         ReleaseFrame, LoseAccess, RemoveGpu, Draw
<1>2. held' \in BOOLEAN
  BY DEF CaptureFrame, CaptureDropped, CapturerForceKeyFrame, objVars,
         ReleaseFrame, LoseAccess, RemoveGpu, Draw, CapturerTyped
<1>3. changes' \in [Regions -> {"no", "dirty", "moved"}]
  <2>1. CASE CaptureFrame \/ CaptureDropped
    BY <2>1 DEF CaptureFrame, CaptureDropped, Acquires, Unchanged
  <2>2. CASE CapturerForceKeyFrame \/ ReleaseFrame \/ LoseAccess \/ RemoveGpu
    BY <2>2 DEF CapturerForceKeyFrame, ReleaseFrame, LoseAccess, RemoveGpu,
                metaVars, CapturerTyped
  <2>3. CASE Draw
    BY <2>3 DEF Draw, CapturerTyped
  <2> QED BY <2>1, <2>2, <2>3
<1>4. CapturerTyped'
  BY <1>1, <1>2, <1>3 DEF CapturerTyped
<1>5. Owned' /\ FaultOnlyAfterFailure'
  BY <1>1 DEF Owned, Closed, Opened, Dangling, FaultOnlyAfterFailure
<1> QED BY <1>4, <1>5

LEMMA RecreateKeeps ==
    ASSUME Whole, fault = "none", RecreateOutputDuplication
    PROVE  Whole'
<1> USE DEF Whole
<1>1. "dup" \in Objects
  BY ObjectSet
<1>2. is_initialized_ /\ exists /\ refs["dup"] = 1
  BY <1>1 DEF RecreateOutputDuplication, Owned, Closed, Opened, Usable
<1>3. CASE UNCHANGED <<ptr, refs, failed>> /\ changes' = Redrawn
  BY <1>3 DEF RecreateOutputDuplication, Redrawn, CapturerTyped, Owned, Closed,
              Opened, Dangling, FaultOnlyAfterFailure
<1>4. CASE /\ ptr' = [ptr EXCEPT !["dup"] = "null"]
           /\ refs' = [refs EXCEPT !["dup"] = @ - 1]
           /\ failed' = failed \cup {"recreate"}
           /\ UNCHANGED changes
  <2>1. ptr'["dup"] = "null" /\ refs'["dup"] = 0
    BY <1>1, <1>2, <1>4 DEF CapturerTyped
  <2>2. \A o \in Objects : o # "dup" => ptr'[o] = ptr[o] /\ refs'[o] = refs[o]
    BY <1>4 DEF CapturerTyped
  <2>3. ptr' \in [Objects -> Pointer]
    BY <1>4 DEF CapturerTyped, Pointer
  <2>4. \A o \in Objects : refs'[o] \in Nat
    BY <2>1, <2>2 DEF CapturerTyped
  <2>5. refs' \in [Objects -> Nat]
    BY <1>4, <2>4 DEF CapturerTyped
  <2>6. CapturerTyped'
    BY <1>4, <2>3, <2>5 DEF RecreateOutputDuplication, CapturerTyped
  <2>7. Owned'
    BY <1>2, <1>4, <2>1, <2>2
       DEF RecreateOutputDuplication, Owned, Closed, Opened, Dangling
  <2>8. FaultOnlyAfterFailure'
    BY <1>4 DEF RecreateOutputDuplication, FaultOnlyAfterFailure
  <2> QED BY <2>6, <2>7, <2>8
<1> QED BY <1>3, <1>4 DEF RecreateOutputDuplication

LEMMA NothingKeeps ==
    ASSUME Whole, fault = "none", CaptureThroughNothing
    PROVE  Whole'
<1> USE DEF Whole
<1>1. "dup" \in Objects
  BY ObjectSet
<1>2. "recreate" \in failed
  BY <1>1 DEF CaptureThroughNothing, Owned, Closed, Opened, Usable
<1> QED BY <1>2 DEF CaptureThroughNothing, metaVars, CapturerTyped, Owned,
                    FaultOnlyAfterFailure

LEMMA ShutdownKeeps ==
    ASSUME Whole, fault = "none", Shutdown
    PROVE  Whole'
<1> USE DEF Whole
<1> DEFINE named == {o \in Objects : ptr[o] # "null"}
<1>1. CASE \A o \in named : Usable(o)
  <2>1. /\ exists' \in BOOLEAN
        /\ refs' = [o \in Objects |-> IF o \in named THEN refs[o] - 1 ELSE refs[o]]
        /\ ptr' = [o \in Objects |-> "null"]
        /\ failed' = {} /\ UNCHANGED fault
    BY <1>1 DEF Shutdown
  <2>2. \A o \in Objects : refs'[o] = 0
    <3> TAKE o \in Objects
    <3>1. CASE is_initialized_
      BY <2>1, <3>1 DEF Owned, Opened
    <3>2. CASE ~is_initialized_
      BY <1>1, <2>1, <3>2 DEF Owned, Closed, Usable
    <3> QED BY <3>1, <3>2
  <2>3. CapturerTyped'
    <3>1. refs' \in [Objects -> Nat]
      BY <2>1, <2>2
    <3>2. ptr' \in [Objects -> Pointer]
      BY <2>1 DEF Pointer
    <3> QED BY <2>1, <3>1, <3>2 DEF Shutdown, CapturerTyped, Unchanged
  <2>4. Owned'
    BY <2>1, <2>2 DEF Shutdown, Owned, Closed, Opened, Dangling
  <2>5. FaultOnlyAfterFailure'
    BY <2>1 DEF FaultOnlyAfterFailure
  <2> QED BY <2>3, <2>4, <2>5
<1>2. CASE ~ \A o \in named : Usable(o)
  <2>1. fault' = "release" /\ UNCHANGED <<exists, ptr, refs, failed>>
    BY <1>2 DEF Shutdown
  <2>2. PICK o \in Objects : ptr[o] # "null" /\ ~Usable(o)
    BY <1>2
  <2>3. ~is_initialized_
    BY <2>2 DEF Owned, Opened, Usable
  <2>4. ptr[o] \in {"set", "garbage"}
    BY <2>2 DEF CapturerTyped, Pointer
  <2>5. "initialize" \in failed \/ ptr["output"] = "garbage"
    BY <2>3, <2>4 DEF Owned, Dangling
  <2>6. CapturerTyped'
    BY <2>1 DEF Shutdown, CapturerTyped, Unchanged
  <2> QED BY <2>1, <2>5, <2>6 DEF Owned, FaultOnlyAfterFailure
<1> QED BY <1>1, <1>2

LEMMA CaptureKeepsObjects ==
    ASSUME Whole, CaptureNext
    PROVE  Whole'
BY ConstructKeeps, InitializeFailsKeeps, InitializeKeeps, RunningKeeps, FrameKeeps,
   RecreateKeeps, NothingKeeps, ShutdownKeeps
   DEF CaptureNext

-----------------------------------------------------------------------------
(* The specification.                                                      *)

LEMMA Initially == Init => IInv
<1> SUFFICES ASSUME Init
             PROVE  IInv
  OBVIOUS
<1>1. CapturerTyped
  BY DEF Init, CaptureInit, CapturerTyped, Pointer, Unchanged
<1>2. Owned
  BY DEF Init, CaptureInit, Owned, Closed, Opened, Dangling
<1>3. FaultOnlyAfterFailure /\ ChangesReported
  BY DEF Init, CaptureInit, FaultOnlyAfterFailure, ChangesReported
<1>4. KeyRequestLostOnlyAs
  BY DEF Init, EncoderInit, KeyRequestLostOnlyAs
<1>5. EncoderBooks
  BY LedgerEmpty DEF Init, EncoderInit, CodecInit, EncoderBooks
<1> QED BY <1>1, <1>2, <1>3, <1>4, <1>5 DEF IInv

LEMMA Inductive == IInv /\ [Next]_vars => IInv'
<1> SUFFICES ASSUME IInv, [Next]_vars
             PROVE  IInv'
  OBVIOUS
<1> USE DEF IInv
<1>1. ASSUME UNCHANGED capVars
      PROVE  CapturerTyped' /\ Owned' /\ FaultOnlyAfterFailure' /\ ChangesReported'
  BY <1>1 DEF capVars, objVars, metaVars, CapturerTyped, Owned, Closed, Opened,
              Dangling, FaultOnlyAfterFailure, ChangesReported
<1>2. ASSUME UNCHANGED encVars
      PROVE  KeyRequestLostOnlyAs' /\ EncoderBooks'
  BY <1>2 DEF encVars, codecVars, KeyRequestLostOnlyAs, EncoderBooks
<1>3. CASE EncodeHeld
  BY <1>1, <1>3, EncodeKeepsRequest, EncodeBooks DEF EncodeHeld
<1>4. CASE ManageEncoder
  BY <1>1, <1>4, LifecycleKeepsRequest, LifecycleBooks DEF ManageEncoder
<1>5. CASE AskForKeyFrame
  BY <1>1, <1>5 DEF AskForKeyFrame, ForceKeyFrame, codecVars, KeyRequestLostOnlyAs,
                    EncoderBooks
<1>6. CASE CaptureStep
  <2>1. Whole'
    BY <1>6, CaptureKeepsObjects DEF CaptureStep, Whole
  <2>2. ChangesReported'
    BY <1>6, CaptureKeepsChanges DEF CaptureStep
  <2> QED BY <1>2, <1>6, <2>1, <2>2 DEF CaptureStep, Whole
<1>7. CASE UNCHANGED vars
  <2>1. UNCHANGED capVars /\ UNCHANGED encVars
    BY <1>7 DEF vars
  <2> QED BY <1>1, <1>2, <2>1
<1> QED BY <1>3, <1>4, <1>5, <1>6, <1>7 DEF Next

\* The capturer's pointers and what they name agree, in every behaviour.
THEOREM InvariantHolds == Spec => []IInv
BY Initially, Inductive, PTL DEF Spec

\* No COM object of the capturer is leaked, whatever fails and however often it
\* is initialized, recreated, shut down and destroyed (ScreenCapturerDxgi).
THEOREM NothingLeaks == Spec => []RefsNamed
<1>1. IInv => RefsNamed
  <2> SUFFICES ASSUME IInv, fault = "none", NEW o \in Objects
               PROVE  refs[o] <= 1 /\ (refs[o] = 1 => ptr[o] = "set" /\ exists)
    BY DEF RefsNamed
  <2>1. Closed /\ Opened
    BY DEF IInv, Owned
  <2> QED BY <2>1 DEF Closed, Opened
<1> QED BY <1>1, InvariantHolds, PTL

\* CaptureFrame and Shutdown go through a dangling pointer only after a step of
\* Initialize, or a recreation, has failed.
THEOREM DanglesOnlyAfterFailure == Spec => []FaultOnlyAfterFailure
<1>1. IInv => FaultOnlyAfterFailure
  BY DEF IInv
<1> QED BY <1>1, InvariantHolds, PTL

\* The rects of the frames cover every change of the desktop but those of a
\* frame that was dropped and moves that were not read (ExtractDirtyRects,
\* ExtractMoveRects), for any set of regions.
THEOREM ReportsChanges == Spec => []ChangesReported
<1>1. IInv => ChangesReported
  BY DEF IInv
<1> QED BY <1>1, InvariantHolds, PTL

\* A request for a key frame is lost only with a frame that the codec refused
\* (SoftwareEncoder and HardwareEncoder::Encode), for any number of frames.
THEOREM KeepsKeyRequest == Spec => []KeyRequestLostOnlyAs
<1>1. IInv => KeyRequestLostOnlyAs
  BY DEF IInv
<1> QED BY <1>1, InvariantHolds, PTL

\* The packets of the encoder come out in order, each frame's once; a frame the
\* codec took is inside or its packet was given to the caller, but for what a
\* repeated send or a reported error cost; a Flush that succeeds leaves nothing
\* inside (Encode, ProcessOutput and Flush), for any number of frames.
THEOREM PacketsReachTheCaller == Spec => []PacketsAccounted
<1>1. IInv => PacketsAccounted
  BY LedgerAccounts DEF IInv, EncoderBooks, PacketsAccounted
<1> QED BY <1>1, InvariantHolds, PTL

-----------------------------------------------------------------------------
(* The references to the devices.                                          *)

DeviceOrNone == Devices \cup {NoDevice}
Memory == [av : [Devices -> Int], com : [Devices -> Int]]

\* The references to the context around device d, when h, c and f are the
\* devices of hw_context_, codec_ctx_ and the caller's frame, and p says whether
\* the codec has a frame pool.
AvOwed(h, c, p, f, d) ==
    One(h = d) + One(c = d) + One(p /\ c = d) + One(f = d)

\* The counts of m are those references, the renderer's to its device v, and
\* those it has detached, out.
Balanced(m, h, c, p, f, v, out) ==
    /\ m \in Memory /\ out \in [Devices -> Nat] /\ p \in BOOLEAN
    /\ h \in DeviceOrNone /\ c \in DeviceOrNone
    /\ f \in DeviceOrNone /\ v \in DeviceOrNone
    /\ \A d \in Devices :
         /\ m.av[d] = AvOwed(h, c, p, f, d)
         /\ m.com[d] = One(m.av[d] > 0) + One(v = d) + out[d]

\* What a reference to the context of x, and one less, does to the counts.
LEMMA AvRefOfMemory ==
    ASSUME NEW m \in Memory, NEW x \in Devices
    PROVE  /\ AvRef(m, x) \in Memory
           /\ \A d \in Devices : /\ AvRef(m, x).av[d] = IF d = x THEN m.av[d] + 1 ELSE m.av[d]
                                 /\ AvRef(m, x).com[d] = m.com[d]
<1>1. x # NoDevice
  BY DeviceAssumption
<1> QED BY <1>1 DEF AvRef, Memory

LEMMA AvUnrefOfMemory ==
    ASSUME NEW m \in Memory, NEW x \in Devices
    PROVE  /\ AvUnref(m, x) \in Memory
           /\ \A d \in Devices :
                /\ AvUnref(m, x).av[d] = IF d = x THEN m.av[d] - 1 ELSE m.av[d]
                /\ AvUnref(m, x).com[d] = IF d = x /\ m.av[d] = 1 THEN m.com[d] - 1
                                          ELSE m.com[d]
<1>1. x # NoDevice
  BY DeviceAssumption
<1>2. m.av \in [Devices -> Int] /\ m.com \in [Devices -> Int] /\ m = [av |-> m.av, com |-> m.com]
  BY DEF Memory
<1>3. PICK a, b :
        /\ a = [m.av EXCEPT ![x] = @ - 1]
        /\ b = [m.com EXCEPT ![x] = IF m.av[x] = 1 THEN @ - 1 ELSE @]
  OBVIOUS
<1>4. AvUnref(m, x) = [av |-> a, com |-> b]
  BY <1>1, <1>2, <1>3 DEF AvUnref
<1>5. a \in [Devices -> Int] /\ \A d \in Devices : a[d] = IF d = x THEN m.av[d] - 1 ELSE m.av[d]
  BY <1>2, <1>3
<1>6. /\ b \in [Devices -> Int]
      /\ \A d \in Devices : b[d] = IF d = x /\ m.av[d] = 1 THEN m.com[d] - 1 ELSE m.com[d]
  BY <1>2, <1>3
<1> QED BY <1>4, <1>5, <1>6 DEF Memory

LEMMA AvCreateOfMemory ==
    ASSUME NEW m \in Memory, NEW x \in Devices
    PROVE  /\ AvCreate(m, x) \in Memory
           /\ \A d \in Devices : /\ AvCreate(m, x).av[d] = IF d = x THEN 1 ELSE m.av[d]
                                 /\ AvCreate(m, x).com[d] = IF d = x THEN 1 ELSE m.com[d]
<1>1. /\ m.av \in [Devices -> Int] /\ m.com \in [Devices -> Int]
      /\ m = [av |-> m.av, com |-> m.com]
  BY DEF Memory
<1>2. PICK a, b : a = [m.av EXCEPT ![x] = 1] /\ b = [m.com EXCEPT ![x] = 1]
  OBVIOUS
<1>3. AvCreate(m, x).av = a /\ AvCreate(m, x).com = b
  BY <1>1, <1>2 DEF AvCreate
<1>4. AvCreate(m, x) \in Memory
  <2>1. a \in [Devices -> Int] /\ b \in [Devices -> Int]
    BY <1>1, <1>2
  <2>2. PICK n : n = [m EXCEPT !.av = a]
    OBVIOUS
  <2>3. n \in Memory /\ n.com = m.com
    BY <1>1, <2>1, <2>2 DEF Memory
  <2>4. AvCreate(m, x) = [n EXCEPT !.com = b]
    BY <1>1, <1>2, <2>2 DEF AvCreate
  <2> QED BY <2>1, <2>3, <2>4 DEF Memory
<1>5. \A d \in Devices : a[d] = IF d = x THEN 1 ELSE m.av[d]
  BY <1>1, <1>2
<1>6. \A d \in Devices : b[d] = IF d = x THEN 1 ELSE m.com[d]
  BY <1>1, <1>2
<1> QED BY <1>3, <1>4, <1>5, <1>6

LEMMA ComOfMemory ==
    ASSUME NEW m \in Memory, NEW x \in Devices
    PROVE  /\ ComRef(m, x) \in Memory
           /\ \A d \in Devices : /\ ComRef(m, x).av[d] = m.av[d]
                                 /\ ComRef(m, x).com[d] = IF d = x THEN m.com[d] + 1 ELSE m.com[d]
           /\ ComUnref(m, x) \in Memory
           /\ \A d \in Devices : /\ ComUnref(m, x).av[d] = m.av[d]
                                 /\ ComUnref(m, x).com[d] = IF d = x THEN m.com[d] - 1 ELSE m.com[d]
<1>1. x # NoDevice
  BY DeviceAssumption
<1>2. /\ ComRef(m, x) \in Memory
      /\ \A d \in Devices : /\ ComRef(m, x).av[d] = m.av[d]
                            /\ ComRef(m, x).com[d] = IF d = x THEN m.com[d] + 1 ELSE m.com[d]
  BY <1>1 DEF ComRef, Memory
<1>3. /\ ComUnref(m, x) \in Memory
      /\ \A d \in Devices : /\ ComUnref(m, x).av[d] = m.av[d]
                            /\ ComUnref(m, x).com[d] = IF d = x THEN m.com[d] - 1 ELSE m.com[d]
  BY <1>1 DEF ComUnref, Memory
<1> QED BY <1>2, <1>3

\* The caller's frame is filled, and emptied.
LEMMA FrameRef ==
    ASSUME NEW m, NEW h, NEW c, NEW p, NEW v, NEW out,
           Balanced(m, h, c, p, NoDevice, v, out)
    PROVE  Balanced(AvRef(m, c), h, c, p, c, v, out)
<1>1. CASE c = NoDevice
  BY <1>1 DEF AvRef
<1>2. CASE c \in Devices
  <2>1. PICK n : n = AvRef(m, c)
    OBVIOUS
  <2>2. /\ n \in Memory
        /\ \A d \in Devices : /\ n.av[d] = IF d = c THEN m.av[d] + 1 ELSE m.av[d]
                              /\ n.com[d] = m.com[d]
    BY <1>2, <2>1, AvRefOfMemory DEF Balanced
  <2>3. ASSUME NEW d \in Devices
        PROVE  /\ n.av[d] = AvOwed(h, c, p, c, d)
               /\ n.com[d] = One(n.av[d] > 0) + One(v = d) + out[d]
    <3>1. /\ m.av[d] = AvOwed(h, c, p, NoDevice, d) /\ m.com[d] = One(m.av[d] > 0) + One(v = d) + out[d]
          /\ out[d] \in Nat
      BY DEF Balanced
    <3> QED BY <1>2, <2>2, <3>1, DeviceAssumption DEF AvOwed, One
  <2> QED BY <1>2, <2>1, <2>2, <2>3 DEF Balanced, DeviceOrNone
<1> QED BY <1>1, <1>2 DEF Balanced, DeviceOrNone

LEMMA FrameUnref ==
    ASSUME NEW m, NEW h, NEW c, NEW p, NEW f, NEW v, NEW out,
           Balanced(m, h, c, p, f, v, out)
    PROVE  Balanced(AvUnref(m, f), h, c, p, NoDevice, v, out)
<1>1. CASE f = NoDevice
  BY <1>1 DEF AvUnref
<1>2. CASE f \in Devices
  <2>1. PICK n : n = AvUnref(m, f)
    OBVIOUS
  <2>2. /\ n \in Memory
        /\ \A d \in Devices : /\ n.av[d] = IF d = f THEN m.av[d] - 1 ELSE m.av[d]
                              /\ n.com[d] = IF d = f /\ m.av[d] = 1 THEN m.com[d] - 1 ELSE m.com[d]
    BY <1>2, <2>1, AvUnrefOfMemory DEF Balanced
  <2>3. ASSUME NEW d \in Devices
        PROVE  /\ n.av[d] = AvOwed(h, c, p, NoDevice, d)
               /\ n.com[d] = One(n.av[d] > 0) + One(v = d) + out[d]
    <3>1. /\ m.av[d] = AvOwed(h, c, p, f, d) /\ m.com[d] = One(m.av[d] > 0) + One(v = d) + out[d]
          /\ out[d] \in Nat
      BY DEF Balanced
    <3> QED BY <1>2, <2>2, <3>1, DeviceAssumption DEF AvOwed, One
  <2> QED BY <1>2, <2>1, <2>2, <2>3 DEF Balanced, DeviceOrNone
<1> QED BY <1>1, <1>2 DEF Balanced, DeviceOrNone

\* The frame pool is made, and let go of.
LEMMA PoolRef ==
    ASSUME NEW m, NEW h, NEW c, NEW f, NEW v, NEW out, c # NoDevice,
           Balanced(m, h, c, FALSE, f, v, out)
    PROVE  Balanced(AvRef(m, c), h, c, TRUE, f, v, out)
<1>1. c \in Devices
  BY DEF Balanced, DeviceOrNone
<1>2. PICK n : n = AvRef(m, c)
  OBVIOUS
<1>3. /\ n \in Memory
      /\ \A d \in Devices : /\ n.av[d] = IF d = c THEN m.av[d] + 1 ELSE m.av[d]
                            /\ n.com[d] = m.com[d]
  BY <1>1, <1>2, AvRefOfMemory DEF Balanced
<1>4. ASSUME NEW d \in Devices
      PROVE  /\ n.av[d] = AvOwed(h, c, TRUE, f, d)
             /\ n.com[d] = One(n.av[d] > 0) + One(v = d) + out[d]
  <2>1. /\ m.av[d] = AvOwed(h, c, FALSE, f, d)
        /\ m.com[d] = One(m.av[d] > 0) + One(v = d) + out[d]
        /\ out[d] \in Nat
    BY DEF Balanced
  <2> QED BY <1>1, <1>3, <2>1 DEF AvOwed, One
<1> QED BY <1>2, <1>3, <1>4 DEF Balanced

LEMMA PoolLetGo ==
    ASSUME NEW m, NEW h, NEW c, NEW f, NEW v, NEW out,
           Balanced(m, h, c, TRUE, f, v, out)
    PROVE  Balanced(AvUnref(m, c), h, c, FALSE, f, v, out)
<1>1. CASE c = NoDevice
  BY <1>1, DeviceAssumption DEF AvUnref, Balanced, AvOwed, One
<1>2. CASE c \in Devices
  <2>1. PICK n : n = AvUnref(m, c)
    OBVIOUS
  <2>2. /\ n \in Memory
        /\ \A d \in Devices : /\ n.av[d] = IF d = c THEN m.av[d] - 1 ELSE m.av[d]
                              /\ n.com[d] = IF d = c /\ m.av[d] = 1 THEN m.com[d] - 1 ELSE m.com[d]
    BY <1>2, <2>1, AvUnrefOfMemory DEF Balanced
  <2>3. ASSUME NEW d \in Devices
        PROVE  /\ n.av[d] = AvOwed(h, c, FALSE, f, d)
               /\ n.com[d] = One(n.av[d] > 0) + One(v = d) + out[d]
    <3>1. /\ m.av[d] = AvOwed(h, c, TRUE, f, d) /\ m.com[d] = One(m.av[d] > 0) + One(v = d) + out[d]
          /\ out[d] \in Nat
      BY DEF Balanced
    <3> QED BY <1>2, <2>2, <3>1, DeviceAssumption DEF AvOwed, One
  <2> QED BY <1>2, <2>1, <2>2, <2>3 DEF Balanced, DeviceOrNone
<1> QED BY <1>1, <1>2 DEF Balanced, DeviceOrNone

\* The codec and hw_context_ let go of the context.
LEMMA CodecUnref ==
    ASSUME NEW m, NEW h, NEW c, NEW f, NEW v, NEW out,
           Balanced(m, h, c, FALSE, f, v, out)
    PROVE  Balanced(AvUnref(m, c), h, NoDevice, FALSE, f, v, out)
<1>1. CASE c = NoDevice
  BY <1>1 DEF AvUnref
<1>2. CASE c \in Devices
  <2>1. PICK n : n = AvUnref(m, c)
    OBVIOUS
  <2>2. /\ n \in Memory
        /\ \A d \in Devices : /\ n.av[d] = IF d = c THEN m.av[d] - 1 ELSE m.av[d]
                              /\ n.com[d] = IF d = c /\ m.av[d] = 1 THEN m.com[d] - 1 ELSE m.com[d]
    BY <1>2, <2>1, AvUnrefOfMemory DEF Balanced
  <2>3. ASSUME NEW d \in Devices
        PROVE  /\ n.av[d] = AvOwed(h, NoDevice, FALSE, f, d)
               /\ n.com[d] = One(n.av[d] > 0) + One(v = d) + out[d]
    <3>1. /\ m.av[d] = AvOwed(h, c, FALSE, f, d) /\ m.com[d] = One(m.av[d] > 0) + One(v = d) + out[d]
          /\ out[d] \in Nat
      BY DEF Balanced
    <3> QED BY <1>2, <2>2, <3>1, DeviceAssumption DEF AvOwed, One
  <2> QED BY <1>2, <2>1, <2>2, <2>3 DEF Balanced, DeviceOrNone
<1> QED BY <1>1, <1>2 DEF Balanced, DeviceOrNone

LEMMA ContextUnref ==
    ASSUME NEW m, NEW h, NEW f, NEW v, NEW out,
           Balanced(m, h, NoDevice, FALSE, f, v, out)
    PROVE  Balanced(AvUnref(m, h), NoDevice, NoDevice, FALSE, f, v, out)
<1>1. CASE h = NoDevice
  BY <1>1 DEF AvUnref
<1>2. CASE h \in Devices
  <2>1. PICK n : n = AvUnref(m, h)
    OBVIOUS
  <2>2. /\ n \in Memory
        /\ \A d \in Devices : /\ n.av[d] = IF d = h THEN m.av[d] - 1 ELSE m.av[d]
                              /\ n.com[d] = IF d = h /\ m.av[d] = 1 THEN m.com[d] - 1 ELSE m.com[d]
    BY <1>2, <2>1, AvUnrefOfMemory DEF Balanced
  <2>3. ASSUME NEW d \in Devices
        PROVE  /\ n.av[d] = AvOwed(NoDevice, NoDevice, FALSE, f, d)
               /\ n.com[d] = One(n.av[d] > 0) + One(v = d) + out[d]
    <3>1. /\ m.av[d] = AvOwed(h, NoDevice, FALSE, f, d) /\ m.com[d] = One(m.av[d] > 0) + One(v = d) + out[d]
          /\ out[d] \in Nat
      BY DEF Balanced
    <3> QED BY <1>2, <2>2, <3>1, DeviceAssumption DEF AvOwed, One
  <2> QED BY <1>2, <2>1, <2>2, <2>3 DEF Balanced, DeviceOrNone
<1> QED BY <1>1, <1>2 DEF Balanced, DeviceOrNone

\* A device that nobody refers to is made, for hw_context_ and the codec.
LEMMA ContextMade ==
    ASSUME NEW m, NEW f, NEW v, NEW out, NEW d \in Devices, m.com[d] = 0,
           Balanced(m, NoDevice, NoDevice, FALSE, f, v, out)
    PROVE  Balanced(AvRef(AvCreate(m, d), d), d, d, FALSE, f, v, out)
<1>1. m.av[d] = 0 /\ v # d /\ f # d /\ out[d] = 0
  <2>1. d # NoDevice /\ out[d] \in Nat
    BY DeviceAssumption DEF Balanced
  <2>2. m.av[d] = IF f = d THEN 1 ELSE 0
    BY <2>1 DEF Balanced, AvOwed, One
  <2>3. m.com[d] = (IF m.av[d] > 0 THEN 1 ELSE 0) + (IF v = d THEN 1 ELSE 0) + out[d]
    BY DEF Balanced, One
  <2> QED BY <2>1, <2>2, <2>3
<1>2. PICK a, n : a = AvCreate(m, d) /\ n = AvRef(a, d)
  OBVIOUS
<1>3. /\ a \in Memory
      /\ \A e \in Devices : /\ a.av[e] = IF e = d THEN 1 ELSE m.av[e]
                            /\ a.com[e] = IF e = d THEN 1 ELSE m.com[e]
  BY <1>2, AvCreateOfMemory DEF Balanced
<1>4. /\ n \in Memory
      /\ \A e \in Devices : /\ n.av[e] = IF e = d THEN a.av[e] + 1 ELSE a.av[e]
                            /\ n.com[e] = a.com[e]
  BY <1>2, <1>3, AvRefOfMemory
<1>5. ASSUME NEW e \in Devices
      PROVE  /\ n.av[e] = AvOwed(d, d, FALSE, f, e)
             /\ n.com[e] = One(n.av[e] > 0) + One(v = e) + out[e]
  <2>1. /\ m.av[e] = AvOwed(NoDevice, NoDevice, FALSE, f, e) /\ out[e] \in Nat
        /\ m.com[e] = One(m.av[e] > 0) + One(v = e) + out[e]
    BY DEF Balanced
  <2>2. e # NoDevice /\ d # NoDevice
    BY DeviceAssumption
  <2>3. CASE e = d
    BY <1>1, <1>3, <1>4, <2>1, <2>2, <2>3 DEF AvOwed, One
  <2>4. CASE e # d
    BY <1>1, <1>3, <1>4, <2>1, <2>2, <2>4 DEF AvOwed, One
  <2> QED BY <2>3, <2>4
<1> QED BY <1>2, <1>4, <1>5 DEF Balanced, DeviceOrNone

\* The renderer takes a reference, lets go of it, or keeps it for nobody.
LEMMA RendererRef ==
    ASSUME NEW m, NEW h, NEW c, NEW p, NEW f, NEW x \in DeviceOrNone, NEW out,
           Balanced(m, h, c, p, f, NoDevice, out)
    PROVE  Balanced(ComRef(m, x), h, c, p, f, x, out)
<1>1. CASE x = NoDevice
  BY <1>1 DEF ComRef
<1>2. CASE x \in Devices
  <2>1. PICK n : n = ComRef(m, x)
    OBVIOUS
  <2>2. /\ n \in Memory
        /\ \A d \in Devices : /\ n.av[d] = m.av[d]
                              /\ n.com[d] = IF d = x THEN m.com[d] + 1 ELSE m.com[d]
    BY <1>2, <2>1, ComOfMemory, SMTT(30) DEF Balanced
  <2>3. ASSUME NEW d \in Devices
        PROVE  /\ n.av[d] = AvOwed(h, c, p, f, d)
               /\ n.com[d] = One(n.av[d] > 0) + One(x = d) + out[d]
    <3>1. /\ m.av[d] = AvOwed(h, c, p, f, d) /\ m.com[d] = One(m.av[d] > 0) + One(NoDevice = d) + out[d]
          /\ out[d] \in Nat
      BY DEF Balanced
    <3> QED BY <1>2, <2>2, <3>1, DeviceAssumption DEF AvOwed, One
  <2> QED BY <1>2, <2>1, <2>2, <2>3 DEF Balanced, DeviceOrNone
<1> QED BY <1>1, <1>2 DEF DeviceOrNone

LEMMA RendererUnref ==
    ASSUME NEW m, NEW h, NEW c, NEW p, NEW f, NEW v, NEW out,
           Balanced(m, h, c, p, f, v, out)
    PROVE  Balanced(ComUnref(m, v), h, c, p, f, NoDevice, out)
<1>1. CASE v = NoDevice
  BY <1>1 DEF ComUnref
<1>2. CASE v \in Devices
  <2>1. PICK n : n = ComUnref(m, v)
    OBVIOUS
  <2>2. /\ n \in Memory
        /\ \A d \in Devices : /\ n.av[d] = m.av[d]
                              /\ n.com[d] = IF d = v THEN m.com[d] - 1 ELSE m.com[d]
    BY <1>2, <2>1, ComOfMemory, SMTT(30) DEF Balanced
  <2>3. ASSUME NEW d \in Devices
        PROVE  /\ n.av[d] = AvOwed(h, c, p, f, d)
               /\ n.com[d] = One(n.av[d] > 0) + One(NoDevice = d) + out[d]
    <3>1. /\ m.av[d] = AvOwed(h, c, p, f, d) /\ m.com[d] = One(m.av[d] > 0) + One(v = d) + out[d]
          /\ out[d] \in Nat
      BY DEF Balanced
    <3> QED BY <1>2, <2>2, <3>1, DeviceAssumption DEF AvOwed, One
  <2> QED BY <1>2, <2>1, <2>2, <2>3 DEF Balanced, DeviceOrNone
<1> QED BY <1>1, <1>2 DEF Balanced, DeviceOrNone

LEMMA RendererDetaches ==
    ASSUME NEW m, NEW h, NEW c, NEW p, NEW f, NEW v \in Devices, NEW out,
           Balanced(m, h, c, p, f, v, out)
    PROVE  Balanced(m, h, c, p, f, NoDevice, [out EXCEPT ![v] = @ + 1])
<1>1. /\ [out EXCEPT ![v] = @ + 1] \in [Devices -> Nat]
      /\ \A d \in Devices : [out EXCEPT ![v] = @ + 1][d] = IF d = v THEN out[d] + 1 ELSE out[d]
  BY DEF Balanced
<1> QED BY <1>1, DeviceAssumption DEF Balanced, AvOwed, One, DeviceOrNone

-----------------------------------------------------------------------------
(* The decoder.                                                            *)

DecoderBooks == Ledger(codec, accepted, reported, lost, decodes)

RefsBalanced ==
    Balanced(mem, hw_context_, codec_device, hw_frames_ctx, frame.device, device_,
             detached)

\* The codec uses the device of hw_context_, if the decoder is initialized; the
\* frame was decoded with the device that its Initialize chose.
DecoderHeld ==
    /\ hw_context_ = codec_device
    /\ hw_frames_ctx => codec_device # NoDevice
    /\ ~dec_initialized_ => codec_device = NoDevice
    /\ dec_initialized_ => epoch >= 1
    /\ epoch \in Nat
    /\ frame \in [device : DeviceOrNone, epoch : Nat]
    /\ frame.epoch <= epoch
    /\ frame.device # NoDevice => frame.epoch >= 1
    /\ dec_initialized_ /\ frame.epoch = epoch => frame.device = codec_device

Decoding == DecoderBooks /\ RefsBalanced /\ DecoderHeld

Filled == [device |-> codec_device, epoch |-> epoch]

LEMMA ReceiveFrameKeeps ==
    ASSUME NEW c, NEW m, NEW n \in Nat, NEW p, NEW k, NEW h, NEW v, NEW out,
           ReceiveFrame(c, m, n),
           Ledger(c, accepted', reported, lost + n, k),
           Balanced(m, h, codec_device, p, frame.device, v, out)
    PROVE  /\ Ledger(codec', accepted', reported', lost', k)
           /\ Balanced(mem', h, codec_device, p, frame'.device, v, out)
           /\ frame' \in {NoFrame, Filled}
<1>1. PICK e : e = AvUnref(m, frame.device)
  OBVIOUS
<1>2. Balanced(e, h, codec_device, p, NoDevice, v, out)
  BY <1>1, FrameUnref
<1>3. PICK r \in ReceiveAnswers(c, FALSE) :
        /\ codec' = r.codec
        /\ lost' = lost + n + r.lost
        /\ IF r.ret = "ok"
           THEN /\ frame' = Filled /\ mem' = AvRef(e, codec_device)
                /\ reported' = Append(reported, r.unit)
           ELSE frame' = NoFrame /\ mem' = e /\ UNCHANGED reported
  BY <1>1 DEF ReceiveFrame, Filled
<1>4. Ledger(r.codec, accepted', reported', lost + n + r.lost, k)
  BY <1>3, LedgerReceive
<1>5. CASE r.ret = "ok"
  <2>1. frame' = Filled /\ mem' = AvRef(e, codec_device)
    BY <1>3, <1>5
  <2>2. Balanced(AvRef(e, codec_device), h, codec_device, p, codec_device, v, out)
    BY <1>2, FrameRef
  <2> QED BY <1>3, <1>4, <2>1, <2>2 DEF Filled
<1>6. CASE r.ret # "ok"
  <2>1. frame' = NoFrame /\ mem' = e
    BY <1>3, <1>6
  <2> QED BY <1>2, <1>3, <1>4, <2>1 DEF NoFrame
<1> QED BY <1>5, <1>6

\* get_format makes the frame pool that is missing.
LEMMA PoolMade ==
    ASSUME Decoding, GetHWFormat
    PROVE  Balanced(WithPool, hw_context_, codec_device, hw_frames_ctx', frame.device,
                    device_, detached)
<1>1. RefsBalanced /\ (hw_frames_ctx => codec_device # NoDevice)
  BY DEF Decoding, DecoderHeld
<1>2. hw_frames_ctx \in BOOLEAN
  BY <1>1 DEF RefsBalanced, Balanced
<1>3. CASE codec_device # NoDevice /\ ~hw_frames_ctx
  <2>1. hw_frames_ctx' = TRUE /\ hw_frames_ctx = FALSE
    BY <1>2, <1>3 DEF GetHWFormat
  <2>2. WithPool = AvRef(mem, codec_device)
    BY <1>3 DEF WithPool
  <2>3. Balanced(mem, hw_context_, codec_device, FALSE, frame.device, device_, detached)
    BY <1>1, <2>1 DEF RefsBalanced
  <2> QED BY <1>3, <2>1, <2>2, <2>3, PoolRef
<1>4. CASE ~(codec_device # NoDevice /\ ~hw_frames_ctx)
  <2>1. hw_frames_ctx' = hw_frames_ctx
    BY <1>1, <1>2, <1>4, Zenon DEF GetHWFormat
  <2>2. WithPool = mem
    BY <1>4 DEF WithPool
  <2> QED BY <1>1, <2>1, <2>2 DEF RefsBalanced
<1> QED BY <1>3, <1>4

LEMMA PoolGone ==
    ASSUME Decoding
    PROVE  Balanced(PoolUnref(mem), hw_context_, codec_device, FALSE, frame.device,
                    device_, detached)
<1>1. hw_frames_ctx \in BOOLEAN /\ RefsBalanced
  BY DEF Decoding, RefsBalanced, Balanced
<1>2. CASE hw_frames_ctx = TRUE
  <2>1. PoolUnref(mem) = AvUnref(mem, codec_device)
    BY <1>2 DEF PoolUnref
  <2> QED BY <1>1, <1>2, <2>1, PoolLetGo DEF RefsBalanced
<1>3. CASE hw_frames_ctx = FALSE
  BY <1>1, <1>3 DEF PoolUnref, RefsBalanced
<1> QED BY <1>1, <1>2, <1>3

\* What a packet does to the ledger, the references and the caller's frame.
PacketDone ==
    /\ Ledger(codec', accepted', reported', lost', decodes + 1)
    /\ Balanced(mem', hw_context_, codec_device, hw_frames_ctx', frame'.device, device_,
                detached)
    /\ frame' \in {frame, NoFrame, Filled}
    /\ hw_frames_ctx' => codec_device # NoDevice

LEMMA PacketSent ==
    ASSUME Decoding, SendPacket(decodes)
    PROVE  PacketDone
<1>1. /\ Ledger(codec, accepted, reported, lost, decodes) /\ RefsBalanced
      /\ lost \in Nat /\ lost + 0 = lost
  BY DEF Decoding, DecoderBooks, Ledger, Kept
<1>2. hw_frames_ctx => codec_device # NoDevice
  BY DEF Decoding, DecoderHeld
<1>3. CASE /\ accepted' = accepted \cup {decodes}
           /\ GetHWFormat /\ ReceiveFrame(Accepted(codec, decodes), WithPool, 0)
  <2>1. Ledger(Accepted(codec, decodes), accepted', reported, lost + 0, decodes + 1)
    BY <1>1, <1>3, LedgerSend
  <2>2. Balanced(WithPool, hw_context_, codec_device, hw_frames_ctx', frame.device,
                 device_, detached)
    BY <1>3, PoolMade
  <2>3. /\ Ledger(codec', accepted', reported', lost', decodes + 1)
        /\ Balanced(mem', hw_context_, codec_device, hw_frames_ctx', frame'.device,
                    device_, detached)
        /\ frame' \in {NoFrame, Filled}
    BY <1>3, <2>1, <2>2, ReceiveFrameKeeps
  <2> QED BY <1>3, <2>3 DEF PacketDone, GetHWFormat
<1>4. CASE ReceiveFrame(codec, mem, 0) /\ UNCHANGED <<accepted, hw_frames_ctx>>
  <2>1. Ledger(codec, accepted', reported, lost + 0, decodes + 1)
    BY <1>1, <1>4, LedgerSkip
  <2>2. /\ Ledger(codec', accepted', reported', lost', decodes + 1)
        /\ Balanced(mem', hw_context_, codec_device, hw_frames_ctx, frame'.device,
                    device_, detached)
        /\ frame' \in {NoFrame, Filled}
    BY <1>1, <1>4, <2>1, ReceiveFrameKeeps DEF RefsBalanced
  <2> QED BY <1>2, <1>4, <2>2 DEF PacketDone
<1>5. CASE UNCHANGED <<codecVars, frame, mem, hw_frames_ctx>>
  BY <1>1, <1>2, <1>5, LedgerSkip DEF codecVars, PacketDone, RefsBalanced
<1>6. CASE GetHWFormatFails
  <2>1. Ledger(codec', accepted', reported', lost', decodes + 1)
    BY <1>1, <1>6, LedgerSkip DEF GetHWFormatFails, codecVars
  <2> QED BY <1>6, <2>1, PoolGone DEF GetHWFormatFails, PacketDone
<1> QED BY <1>3, <1>4, <1>5, <1>6 DEF SendPacket

LEMMA PacketSentAgain ==
    ASSUME Decoding, SendPacketAgain(decodes)
    PROVE  PacketDone
<1>1. /\ Ledger(codec, accepted, reported, lost, decodes) /\ RefsBalanced
      /\ lost \in Nat
  BY DEF Decoding, DecoderBooks, Ledger, Kept
<1>2. hw_frames_ctx => codec_device # NoDevice
  BY DEF Decoding, DecoderHeld
<1>3. codec.inside # <<>>
  BY DEF SendPacketAgain, SendAnswers
<1>4. PICK r \in ReceiveAnswers(codec, TRUE) :
        \/ /\ accepted' = accepted \cup {decodes}
           /\ GetHWFormat /\ ReceiveFrame(Accepted(r.codec, decodes), WithPool, 1)
        \/ /\ frame' = Filled
           /\ mem' = AvRef(AvUnref(mem, frame.device), codec_device)
           /\ codec' = r.codec /\ lost' = lost + 1
           /\ UNCHANGED <<accepted, reported, hw_frames_ctx>>
        \/ /\ frame' = NoFrame /\ mem' = AvUnref(mem, frame.device)
           /\ codec' = r.codec /\ lost' = lost + 1
           /\ UNCHANGED <<accepted, reported, hw_frames_ctx>>
  BY DEF SendPacketAgain, Filled
<1>5. Ledger(r.codec, accepted, reported, lost + 1, decodes)
  BY <1>1, <1>3, <1>4, AgainLoses
<1>6. Balanced(AvUnref(mem, frame.device), hw_context_, codec_device, hw_frames_ctx,
               NoDevice, device_, detached)
  BY <1>1, FrameUnref DEF RefsBalanced
<1>7. CASE /\ accepted' = accepted \cup {decodes}
           /\ GetHWFormat /\ ReceiveFrame(Accepted(r.codec, decodes), WithPool, 1)
  <2>1. Ledger(Accepted(r.codec, decodes), accepted', reported, lost + 1, decodes + 1)
    BY <1>5, <1>7, LedgerSend
  <2>2. Balanced(WithPool, hw_context_, codec_device, hw_frames_ctx', frame.device,
                 device_, detached)
    BY <1>7, PoolMade
  <2>3. /\ Ledger(codec', accepted', reported', lost', decodes + 1)
        /\ Balanced(mem', hw_context_, codec_device, hw_frames_ctx', frame'.device,
                    device_, detached)
        /\ frame' \in {NoFrame, Filled}
    BY <1>7, <2>1, <2>2, ReceiveFrameKeeps
  <2> QED BY <1>7, <2>3 DEF PacketDone, GetHWFormat
<1>8. CASE /\ frame' = Filled
           /\ mem' = AvRef(AvUnref(mem, frame.device), codec_device)
           /\ codec' = r.codec /\ lost' = lost + 1
           /\ UNCHANGED <<accepted, reported, hw_frames_ctx>>
  <2>1. Ledger(codec', accepted', reported', lost', decodes + 1)
    BY <1>5, <1>8, LedgerSkip
  <2>2. Balanced(mem', hw_context_, codec_device, hw_frames_ctx, codec_device, device_,
                 detached)
    BY <1>6, <1>8, FrameRef
  <2> QED BY <1>2, <1>8, <2>1, <2>2 DEF PacketDone, Filled
<1>9. CASE /\ frame' = NoFrame /\ mem' = AvUnref(mem, frame.device)
           /\ codec' = r.codec /\ lost' = lost + 1
           /\ UNCHANGED <<accepted, reported, hw_frames_ctx>>
  <2>1. Ledger(codec', accepted', reported', lost', decodes + 1)
    BY <1>5, <1>9, LedgerSkip
  <2> QED BY <1>2, <1>6, <1>9, <2>1 DEF PacketDone, NoFrame
<1> QED BY <1>4, <1>7, <1>8, <1>9

LEMMA DecodeKeeps ==
    ASSUME Decoding, Decode, UNCHANGED <<device_, detached>>
    PROVE  Decoding'
<1>1. PacketDone
  BY PacketSent, PacketSentAgain DEF Decode
<1>2. /\ decodes' = decodes + 1 /\ dec_initialized_
      /\ UNCHANGED <<dec_initialized_, hw_context_, codec_device, epoch>>
  BY DEF Decode
<1>3. DecoderBooks' /\ RefsBalanced'
  BY <1>1, <1>2 DEF PacketDone, DecoderBooks, RefsBalanced
<1>4. DecoderHeld'
  <2>1. codec_device \in DeviceOrNone /\ NoDevice \in DeviceOrNone
    BY DEF Decoding, RefsBalanced, Balanced, DeviceOrNone
  <2>2. /\ frame' \in [device : DeviceOrNone, epoch : Nat]
        /\ frame'.epoch <= epoch
        /\ frame'.device # NoDevice => frame'.epoch >= 1
        /\ frame'.epoch = epoch => frame'.device = codec_device
    <3>1. CASE frame' = frame
      BY <1>2, <3>1 DEF Decoding, DecoderHeld
    <3>2. CASE frame' = NoFrame
      BY <1>2, <2>1, <3>2 DEF Decoding, DecoderHeld, NoFrame
    <3>3. CASE frame' = Filled
      BY <1>2, <2>1, <3>3 DEF Decoding, DecoderHeld, Filled
    <3> QED BY <1>1, <3>1, <3>2, <3>3 DEF PacketDone
  <2>3. hw_frames_ctx' => codec_device # NoDevice
    BY <1>1 DEF PacketDone
  <2>4. DecoderHeld
    BY DEF Decoding
  <2> QED BY <1>2, <2>2, <2>3, <2>4 DEF DecoderHeld
<1> QED BY <1>3, <1>4 DEF Decoding

LEMMA OpenedKeeps ==
    ASSUME Decoding, ~dec_initialized_, UNCHANGED <<device_, detached>>,
           NEW d \in DeviceOrNone, DecoderOpened(d),
           Balanced(mem', d, d, FALSE, frame.device, device_, detached)
    PROVE  Decoding'
<1>1. /\ dec_initialized_' = TRUE /\ hw_context_' = d /\ codec_device' = d
      /\ hw_frames_ctx' = FALSE /\ epoch' = epoch + 1 /\ decodes' = 0 /\ frame' = frame
      /\ codec' = EmptyCodec /\ accepted' = {} /\ reported' = <<>> /\ lost' = 0
  BY DEF DecoderOpened, CodecAfresh
<1>2. DecoderBooks'
  BY <1>1, LedgerEmpty DEF DecoderBooks
<1>3. RefsBalanced'
  BY <1>1 DEF RefsBalanced
<1>4. DecoderHeld'
  BY <1>1 DEF Decoding, DecoderHeld
<1> QED BY <1>2, <1>3, <1>4 DEF Decoding

LEMMA InitializeKeepsDecoding ==
    ASSUME Decoding, UNCHANGED <<device_, detached>>, InitHWDecoder \/ InitSWDecoder
    PROVE  Decoding'
<1>1. ~dec_initialized_ /\ codec_device = NoDevice /\ hw_context_ = NoDevice
      /\ ~hw_frames_ctx
  BY DEF Decoding, DecoderHeld, InitHWDecoder, InitSWDecoder
<1>2. Balanced(mem, NoDevice, NoDevice, FALSE, frame.device, device_, detached)
  <2>1. hw_frames_ctx = FALSE
    BY <1>1 DEF Decoding, RefsBalanced, Balanced
  <2> QED BY <1>1, <2>1 DEF Decoding, RefsBalanced
<1>3. CASE InitHWDecoder
  <2>1. PICK d \in Devices : /\ mem.com[d] = 0 /\ DecoderOpened(d)
                             /\ mem' = AvRef(AvCreate(mem, d), d)
    BY <1>3 DEF InitHWDecoder, Fresh
  <2>2. Balanced(mem', d, d, FALSE, frame.device, device_, detached)
    BY <1>2, <2>1, ContextMade
  <2> QED BY <1>1, <2>1, <2>2, OpenedKeeps DEF DeviceOrNone
<1>4. CASE InitSWDecoder
  <2>1. DecoderOpened(NoDevice) /\ mem' = mem /\ NoDevice \in DeviceOrNone
    BY <1>4 DEF InitSWDecoder, DeviceOrNone
  <2> QED BY <1>1, <1>2, <2>1, OpenedKeeps
<1> QED BY <1>3, <1>4

LEMMA ShutdownKeepsDecoding ==
    ASSUME Decoding, UNCHANGED <<device_, detached>>, DecoderShutdown
    PROVE  Decoding'
<1>1. /\ mem' = AvUnref(AvUnref(PoolUnref(mem), codec_device), hw_context_)
      /\ dec_initialized_' = FALSE /\ hw_context_' = NoDevice
      /\ codec_device' = NoDevice /\ hw_frames_ctx' = FALSE
      /\ codec' = EmptyCodec /\ accepted' = {} /\ reported' = <<>> /\ lost' = 0
      /\ frame' = frame /\ epoch' = epoch /\ decodes' = decodes
  BY DEF DecoderShutdown, CodecAfresh
<1>2. DecoderBooks'
  <2>1. decodes \in Nat
    BY DEF Decoding, DecoderBooks, Ledger, Streams
  <2> QED BY <1>1, <2>1, LedgerEmpty DEF DecoderBooks
<1>3. RefsBalanced'
  <2>1. PICK m, n : m = PoolUnref(mem) /\ n = AvUnref(m, codec_device)
    OBVIOUS
  <2>2. Balanced(m, hw_context_, codec_device, FALSE, frame.device, device_, detached)
    BY <2>1, PoolGone
  <2>3. Balanced(n, hw_context_, NoDevice, FALSE, frame.device, device_, detached)
    BY <2>1, <2>2, CodecUnref
  <2>4. Balanced(AvUnref(n, hw_context_), NoDevice, NoDevice, FALSE, frame.device,
                 device_, detached)
    BY <2>3, ContextUnref
  <2> QED BY <1>1, <2>1, <2>4 DEF RefsBalanced
<1>4. DecoderHeld'
  BY <1>1 DEF Decoding, DecoderHeld
<1> QED BY <1>2, <1>3, <1>4 DEF Decoding

LEMMA FlushKeepsDecoding ==
    ASSUME Decoding, UNCHANGED <<device_, detached>>, DecoderFlush \/ FlushBuffers
    PROVE  Decoding'
<1>1. UNCHANGED <<mem, dec_initialized_, hw_context_, codec_device, hw_frames_ctx,
                  frame, epoch, decodes>>
  BY DEF DecoderFlush, FlushBuffers
<1>2. RefsBalanced' /\ DecoderHeld'
  BY <1>1 DEF Decoding, RefsBalanced, DecoderHeld
<1>3. CASE DecoderFlush
  <2>1. PICK k \in 0..Len(codec.inside) : \E r \in ReceiveAnswers(Drained(k), FALSE) :
          Drain(k, r)
    BY <1>3 DEF DecoderFlush
  <2>2. PICK r : Drain(k, r)
    BY <2>1
  <2>3. Ledger(codec', accepted', reported', lost', decodes)
    BY <2>1, <2>2, LedgerDrain DEF Decoding, DecoderBooks
  <2> QED BY <1>1, <1>2, <2>3 DEF Decoding, DecoderBooks
<1>4. CASE FlushBuffers
  <2>1. Ledger(EmptyCodec, accepted \ Range(codec.inside), reported, lost, decodes)
    BY LedgerDrop DEF Decoding, DecoderBooks
  <2> QED BY <1>1, <1>2, <1>4, <2>1 DEF FlushBuffers, Decoding, DecoderBooks
<1> QED BY <1>3, <1>4

LEMMA DropKeepsDecoding ==
    ASSUME Decoding, UNCHANGED <<device_, detached>>, DropFrame
    PROVE  Decoding'
<1>1. /\ frame' = NoFrame /\ mem' = AvUnref(mem, frame.device)
      /\ UNCHANGED <<dec_initialized_, hw_context_, codec_device, hw_frames_ctx,
                     codecVars, epoch, decodes>>
  BY DEF DropFrame
<1>2. DecoderBooks'
  BY <1>1 DEF Decoding, DecoderBooks, codecVars
<1>3. RefsBalanced'
  <2>1. Balanced(mem', hw_context_, codec_device, hw_frames_ctx, NoDevice, device_,
                 detached)
    BY <1>1, FrameUnref DEF Decoding, RefsBalanced
  <2> QED BY <1>1, <2>1 DEF RefsBalanced, NoFrame
<1>4. DecoderHeld'
  <2>1. NoFrame \in [device : DeviceOrNone, epoch : Nat] /\ NoFrame.epoch = 0
        /\ NoFrame.device = NoDevice
    BY DEF NoFrame, DeviceOrNone
  <2> QED BY <1>1, <2>1 DEF Decoding, DecoderHeld
<1> QED BY <1>2, <1>3, <1>4 DEF Decoding

LEMMA DecoderKeeps ==
    ASSUME Decoding, UNCHANGED <<device_, detached>>, DecoderNext
    PROVE  Decoding'
<1>1. CASE DecoderInitializeFails
  BY <1>1 DEF DecoderInitializeFails, codecVars, Decoding, DecoderBooks, RefsBalanced,
              DecoderHeld
<1> QED BY <1>1, InitializeKeepsDecoding, ShutdownKeepsDecoding, FlushKeepsDecoding,
           DropKeepsDecoding, DecodeKeeps
           DEF DecoderNext

\* What a step of the decoder can mean for a renderer.
LEMMA DecoderMoves ==
    ASSUME Decoding, DecoderNext
    PROVE  /\ frame' \in {frame, NoFrame} \/ (dec_initialized_ /\ frame' = Filled)
           /\ \/ epoch' = epoch + 1
              \/ epoch' = epoch /\ dec_initialized_' = FALSE
              \/ /\ epoch' = epoch /\ dec_initialized_' = dec_initialized_
                 /\ codec_device' = codec_device
<1>1. CASE Decode
  <2>1. PacketDone
    BY <1>1, PacketSent, PacketSentAgain DEF Decode
  <2> QED BY <1>1, <2>1 DEF Decode, PacketDone
<1>2. CASE InitHWDecoder \/ InitSWDecoder
  BY <1>2 DEF InitHWDecoder, InitSWDecoder, DecoderOpened
<1>3. CASE DecoderInitializeFails \/ DecoderShutdown \/ DecoderFlush \/ FlushBuffers \/ DropFrame
  BY <1>3 DEF DecoderInitializeFails, DecoderShutdown, DecoderFlush, FlushBuffers, DropFrame
<1> QED BY <1>1, <1>2, <1>3 DEF DecoderNext

-----------------------------------------------------------------------------
(* The D3D11 renderer.                                                     *)

\* The renderer has the device of the frames that the opening it was paired with
\* makes; and it shows the video or has a reason not to.
RendererHeld ==
    /\ paired \in Nat /\ paired <= epoch
    /\ ren_initialized_ => device_ # NoDevice
    /\ ren_initialized_ /\ frame.epoch = paired /\ frame.device \in D3D11Devices =>
         zero_copy_enabled_ /\ device_ = frame.device
    /\ ren_initialized_ /\ dec_initialized_ /\ paired = epoch /\ codec_device \in D3D11Devices =>
         zero_copy_enabled_ /\ device_ = codec_device
    /\ ren_initialized_ /\ ~broken => render_target_view_ /\ video_texture_
    /\ ren_initialized_ => video_size_ \in seen_sizes
    /\ renderer_type = "kSDL" => drawn = "none"
    /\ WrongDeviceOnlyWhenReopened
    /\ D3D11DarkOnlyAs

\* Initialize takes the decoder's device, keeps the one it had or makes one.
LEMMA DeviceTaken ==
    ASSUME RefsBalanced, NEW hw \in DeviceOrNone,
           NEW a \in {Attached(hw)} \cup WithDevice(Attached(hw))
    PROVE  /\ Balanced(a.mem, hw_context_, codec_device, hw_frames_ctx, frame.device,
                       a.device, detached)
           /\ hw # NoDevice => a.device = hw
           /\ a \in WithDevice(Attached(hw)) => a.device # NoDevice
<1>1. PICK b : b = Attached(hw)
  OBVIOUS
<1>2. /\ Balanced(b.mem, hw_context_, codec_device, hw_frames_ctx, frame.device,
                  b.device, detached)
      /\ hw # NoDevice => b.device = hw
  <2>1. CASE hw = NoDevice
    BY <1>1, <2>1 DEF Attached, RefsBalanced
  <2>2. CASE hw # NoDevice
    <3>1. PICK m : m = ComUnref(mem, device_)
      OBVIOUS
    <3>2. b.device = hw /\ b.mem = ComRef(m, hw)
      BY <1>1, <2>2, <3>1 DEF Attached
    <3>3. Balanced(m, hw_context_, codec_device, hw_frames_ctx, frame.device, NoDevice,
                   detached)
      BY <3>1, RendererUnref DEF RefsBalanced
    <3> QED BY <3>2, <3>3, RendererRef
  <2> QED BY <2>1, <2>2
<1>3. CASE a = b /\ (a \in WithDevice(b) => a.device # NoDevice)
  BY <1>1, <1>2, <1>3
<1>4. CASE a \in WithDevice(b)
  <2>1. CASE b.device # NoDevice
    BY <1>3, <1>4, <2>1 DEF WithDevice
  <2>2. CASE b.device = NoDevice
    <3>1. PICK d \in Devices : a.device = d /\ a.mem = ComRef(b.mem, d)
      BY <1>4, <2>2, DeviceAssumption DEF WithDevice, Fresh
    <3>2. d \in DeviceOrNone /\ d # NoDevice
      BY DeviceAssumption DEF DeviceOrNone
    <3>3. Balanced(ComRef(b.mem, d), hw_context_, codec_device, hw_frames_ctx,
                   frame.device, d, detached)
      BY <1>2, <2>2, <3>2, RendererRef
    <3> QED BY <1>2, <2>2, <3>1, <3>2, <3>3
  <2> QED BY <2>1, <2>2
<1>5. a = b \/ a \in WithDevice(b)
  BY <1>1
<1> QED BY <1>3, <1>4, <1>5

\* A step that leaves the decoder alone.
LEMMA RendererOnly ==
    ASSUME Decoding, UNCHANGED decVars,
           Balanced(mem', hw_context_, codec_device, hw_frames_ctx, frame.device,
                    device_', detached')
    PROVE  Decoding'
<1>1. DecoderBooks' /\ DecoderHeld'
  BY DEF Decoding, DecoderBooks, DecoderHeld, decVars, codecVars
<1>2. RefsBalanced'
  BY DEF RefsBalanced, decVars
<1> QED BY <1>1, <1>2 DEF Decoding

LEMMA InitializeKeepsRenderer ==
    ASSUME Decoding, RendererHeld, InitializeRenderer
    PROVE  Decoding' /\ RendererHeld'
<1>1. /\ UNCHANGED <<decVars, renderer_type, shown>>
      /\ paired' = IF dec_initialized_ THEN epoch ELSE 0
      /\ drawn' = "none" /\ detached' = detached /\ ~ren_initialized_
      /\ renderer_type = "kD3D11"
  BY DEF InitializeRenderer, RendererInitialize, RendererInitializeFails
<1>2. RefsBalanced /\ DecoderHeld
  BY DEF Decoding
<1> DEFINE given == GetD3D11Device
<1>2a. /\ given \in DeviceOrNone
       /\ hw_context_ \in D3D11Devices => given = hw_context_ /\ given # NoDevice
  BY DeviceAssumption DEF GetD3D11Device, DeviceOrNone
<1>3. UNCHANGED <<frame, epoch, dec_initialized_, codec_device, hw_context_>>
  BY <1>1 DEF decVars
<1> HIDE DEF given
<1>4. CASE RendererInitialize(given)
  <2>1. PICK a \in WithDevice(Attached(given)) : device_' = a.device /\ mem' = a.mem
    BY <1>4 DEF RendererInitialize
  <2>2. /\ Balanced(mem', hw_context_, codec_device, hw_frames_ctx, frame.device,
                    device_', detached)
        /\ given # NoDevice => device_' = given
        /\ device_' # NoDevice
    BY <1>2, <1>2a, <2>1, DeviceTaken
  <2>3. Decoding'
    BY <1>1, <2>2, RendererOnly
  <2>4. /\ given # NoDevice => zero_copy_enabled_'
        /\ render_target_view_' /\ video_texture_' /\ ~broken'
    BY <1>4, Zenon DEF RendererInitialize
  <2>4a. video_size_' \in seen_sizes'
    BY <1>4, Zenon DEF RendererInitialize, Sized
  <2>5. CASE dec_initialized_
    BY <1>1, <1>2, <1>2a, <1>3, <2>2, <2>3, <2>4, <2>4a, <2>5
       DEF DecoderHeld, RendererHeld, WrongDeviceOnlyWhenReopened, D3D11DarkOnlyAs
  <2>6. CASE ~dec_initialized_
    BY <1>1, <1>2, <1>2a, <1>3, <2>2, <2>3, <2>4, <2>4a, <2>6
       DEF DecoderHeld, RendererHeld, WrongDeviceOnlyWhenReopened, D3D11DarkOnlyAs
  <2> QED BY <2>3, <2>5, <2>6
<1>5. CASE RendererInitializeFails(given)
  <2>1. PICK a \in {Attached(given)} \cup WithDevice(Attached(given)) :
          device_' = a.device /\ mem' = a.mem
    BY <1>5 DEF RendererInitializeFails
  <2>2. Balanced(mem', hw_context_, codec_device, hw_frames_ctx, frame.device,
                 device_', detached)
    BY <1>2, <1>2a, <2>1, DeviceTaken
  <2>3. Decoding'
    BY <1>1, <2>2, RendererOnly
  <2>4. ~ren_initialized_'
    BY <1>5 DEF RendererInitializeFails
  <2>5. paired' \in Nat /\ paired' <= epoch
    BY <1>1, <1>2 DEF DecoderHeld
  <2> QED BY <1>1, <1>3, <2>3, <2>4, <2>5
          DEF RendererHeld, WrongDeviceOnlyWhenReopened, D3D11DarkOnlyAs
<1> QED BY <1>4, <1>5 DEF InitializeRenderer, given

LEMMA StepKeepsRenderer ==
    ASSUME Decoding, RendererHeld, RendererStep
    PROVE  Decoding' /\ RendererHeld'
<1>1. /\ UNCHANGED <<decVars, renderer_type, paired, shown>>
      /\ drawn' = "none" /\ renderer_type = "kD3D11"
  BY DEF RendererStep, RendererShutdown, RendererReplaced, OnResize, Clear
<1>2. RefsBalanced /\ UNCHANGED <<frame, epoch, dec_initialized_, codec_device>>
  BY <1>1 DEF Decoding, decVars
<1>3. CASE RendererShutdown
  <2>1. ren_initialized_ /\ device_ \in Devices /\ device_' = NoDevice /\ ~ren_initialized_'
    BY <1>2, <1>3 DEF RendererShutdown, RendererHeld, RefsBalanced, Balanced, DeviceOrNone
  <2>2. Balanced(mem', hw_context_, codec_device, hw_frames_ctx, frame.device,
                 NoDevice, detached')
    <3>1. CASE zero_copy_enabled_
      <4>1. mem' = mem /\ detached' = [detached EXCEPT ![device_] = @ + 1]
        BY <1>3, <3>1 DEF RendererShutdown
      <4> QED BY <1>2, <2>1, <4>1, RendererDetaches DEF RefsBalanced
    <3>2. CASE ~zero_copy_enabled_
      <4>1. mem' = ComUnref(mem, device_) /\ detached' = detached
        BY <1>3, <3>2 DEF RendererShutdown
      <4> QED BY <1>2, <4>1, RendererUnref DEF RefsBalanced
    <3> QED BY <3>1, <3>2
  <2>3. Decoding'
    BY <1>1, <2>1, <2>2, RendererOnly
  <2> QED BY <1>1, <1>2, <2>1, <2>3
          DEF RendererHeld, WrongDeviceOnlyWhenReopened, D3D11DarkOnlyAs
<1>4. CASE RendererReplaced
  <2>1. /\ mem' = ComUnref(mem, device_) /\ device_' = NoDevice /\ detached' = detached
        /\ ~ren_initialized_'
    BY <1>4 DEF RendererReplaced
  <2>2. Balanced(mem', hw_context_, codec_device, hw_frames_ctx, frame.device,
                 NoDevice, detached')
    BY <1>2, <2>1, RendererUnref DEF RefsBalanced
  <2>3. Decoding'
    BY <1>1, <2>1, <2>2, RendererOnly
  <2> QED BY <1>1, <1>2, <2>1, <2>3
          DEF RendererHeld, WrongDeviceOnlyWhenReopened, D3D11DarkOnlyAs
<1>5. CASE OnResize
  <2>1. UNCHANGED <<mem, device_, detached, ren_initialized_, zero_copy_enabled_,
                    video_texture_, video_size_, seen_sizes>>
    BY <1>5 DEF OnResize
  <2>2. Decoding'
    BY <1>1, <1>2, <2>1, RendererOnly DEF RefsBalanced
  <2>3. ~broken' => ~broken /\ render_target_view_'
    BY <1>5 DEF OnResize
  <2> QED BY <1>1, <1>2, <2>1, <2>2, <2>3
          DEF RendererHeld, WrongDeviceOnlyWhenReopened, D3D11DarkOnlyAs
<1>6. CASE Clear
  <2>1. UNCHANGED <<mem, device_, detached, ren_initialized_, zero_copy_enabled_,
                    render_target_view_, video_texture_, video_size_, broken, seen_sizes>>
    BY <1>6 DEF Clear
  <2>2. Decoding'
    BY <1>1, <1>2, <2>1, RendererOnly DEF RefsBalanced
  <2> QED BY <1>1, <1>2, <2>1, <2>2
          DEF RendererHeld, WrongDeviceOnlyWhenReopened, D3D11DarkOnlyAs
<1> QED BY <1>3, <1>4, <1>5, <1>6 DEF RendererStep

\* What one Render may do wrong, and why.
Drawn(fmt, size) ==
    /\ drawn' = "foreign" => frame.epoch # paired
    /\ drawn' = "pixels" => frame.epoch # paired \/ frame.device \notin D3D11Devices
    /\ drawn' = "nothing" => broken'
    /\ drawn' = "misfit" => size # video_size_
    /\ drawn' = "luma" => frame.device = NoDevice /\ fmt # "nv12"
    /\ ~broken' => ~broken /\ render_target_view_ /\ video_texture_'
    /\ video_size_' \in {video_size_, size}

\* A frame is drawn from the wrong device, or as pixels, or not at all.
LEMMA RenderDraws ==
    ASSUME RendererHeld, NEW fmt, NEW size, Render(frame, fmt, size)
    PROVE  Drawn(fmt, size)
<1>1. ren_initialized_ /\ UNCHANGED <<render_target_view_, zero_copy_enabled_, device_>>
  BY DEF Render
<1>2. /\ Target(video_texture_) = "video" \/ (Target(video_texture_) = "nothing" /\ broken)
      /\ Target(TRUE) = "video" \/ (Target(TRUE) = "nothing" /\ broken)
  BY <1>1 DEF Target, RendererHeld
<1>3. ~broken => render_target_view_ /\ video_texture_
  BY <1>1 DEF RendererHeld
<1>4. frame.epoch = paired /\ frame.device \in D3D11Devices =>
        zero_copy_enabled_ /\ device_ = frame.device
  BY <1>1 DEF RendererHeld
<1>5. CASE RenderHWFrame(frame, size)
  <2>1. /\ frame.device \in D3D11Devices
        /\ UNCHANGED <<video_texture_, video_size_, broken>>
    BY <1>5 DEF RenderHWFrame
  <2>2. PICK what : /\ what = IF frame.device # device_ THEN "foreign"
                              ELSE IF size # video_size_ THEN "misfit"
                              ELSE Target(video_texture_)
                    /\ drawn' \in {what, "none"}
    BY <1>5 DEF RenderHWFrame, Presented
  <2>3. \/ what = "foreign" /\ frame.device # device_
        \/ what = "misfit" /\ size # video_size_
        \/ what = "video"
        \/ what = "nothing" /\ broken
    BY <1>2, <2>2
  <2> QED BY <1>1, <1>3, <1>4, <2>1, <2>2, <2>3 DEF Drawn
<1>6. ASSUME NEW texture, texture \in {video_texture_, TRUE},
             drawn' \in {Uploaded(frame, fmt, texture), "none"}
      PROVE  /\ drawn' \in {"pixels", "nothing", "luma", "video", "none"}
             /\ drawn' = "pixels" => frame.device # NoDevice
             /\ drawn' = "nothing" => broken
             /\ drawn' = "luma" => frame.device = NoDevice /\ fmt # "nv12"
  <2>1. Target(texture) = "video" \/ (Target(texture) = "nothing" /\ broken)
    BY <1>2, <1>6
  <2>2. PICK what : what = Uploaded(frame, fmt, texture) /\ drawn' \in {what, "none"}
    BY <1>6
  <2>3. \/ what = "pixels" /\ frame.device # NoDevice
        \/ what = "nothing" /\ broken
        \/ what = "luma" /\ frame.device = NoDevice /\ fmt # "nv12"
        \/ what = "video"
    BY <2>1, <2>2 DEF Uploaded
  <2> QED BY <2>2, <2>3
<1>7. CASE RenderSWFrame(frame, fmt, size)
  <2>1. frame.device \notin D3D11Devices \/ ~zero_copy_enabled_
    BY <1>7 DEF RenderSWFrame
  <2>2. CASE /\ Presented(Uploaded(frame, fmt, video_texture_))
             /\ UNCHANGED <<video_texture_, video_size_, broken>>
    <3>1. /\ drawn' \in {"pixels", "nothing", "luma", "video", "none"}
          /\ drawn' = "nothing" => broken
          /\ drawn' = "luma" => frame.device = NoDevice /\ fmt # "nv12"
      BY <1>6, <2>2 DEF Presented
    <3> QED BY <1>1, <1>3, <1>4, <2>1, <2>2, <3>1 DEF Drawn
  <2>3. CASE /\ video_texture_' = TRUE /\ video_size_' = size /\ UNCHANGED broken
             /\ Presented(Uploaded(frame, fmt, TRUE))
    <3>1. /\ drawn' \in {"pixels", "nothing", "luma", "video", "none"}
          /\ drawn' = "nothing" => broken
          /\ drawn' = "luma" => frame.device = NoDevice /\ fmt # "nv12"
      BY <1>6, <2>3 DEF Presented
    <3> QED BY <1>1, <1>3, <1>4, <2>1, <2>3, <3>1 DEF Drawn
  <2>4. CASE broken' = TRUE /\ drawn' = "none" /\ UNCHANGED video_size_
    BY <2>4 DEF Drawn
  <2> QED BY <1>7, <2>2, <2>3, <2>4 DEF RenderSWFrame
<1> QED BY <1>5, <1>7 DEF Render

LEMMA RenderKeepsRenderer ==
    ASSUME Decoding, RendererHeld, RenderFrame
    PROVE  Decoding' /\ RendererHeld'
<1>1. /\ shown' = frame /\ renderer_type = "kD3D11"
      /\ UNCHANGED <<decVars, renderer_type, paired>>
  BY DEF RenderFrame
<1>1a. PICK fmt \in FormatsOf(frame), size \in Sizes : Render(frame, fmt, size)
  BY DEF RenderFrame
<1>2. /\ UNCHANGED <<mem, ren_initialized_, device_, zero_copy_enabled_,
                     render_target_view_, detached>>
      /\ ren_initialized_ /\ seen_sizes' = seen_sizes \cup {size}
  BY <1>1a DEF Render
<1>3. Decoding'
  BY <1>1, <1>2, RendererOnly DEF Decoding, RefsBalanced
<1>4. UNCHANGED <<frame, epoch, dec_initialized_, codec_device>>
  BY <1>1 DEF decVars
<1>5. Drawn(fmt, size)
  BY <1>1a, RenderDraws
<1>6. WrongDeviceOnlyWhenReopened'
  BY <1>1, <1>5 DEF WrongDeviceOnlyWhenReopened, Drawn
<1>7. video_size_ \in seen_sizes /\ video_size_' \in seen_sizes'
  BY <1>2, <1>5 DEF RendererHeld, Drawn
<1>8. D3D11DarkOnlyAs'
  <2>1. drawn' = "misfit" => \E u, t \in seen_sizes' : u # t
    <3>1. size \in seen_sizes' /\ video_size_ \in seen_sizes'
      BY <1>2, <1>7
    <3> QED BY <1>5, <3>1 DEF Drawn
  <2>2. drawn' = "luma" => ~(SoftwareFormats \subseteq {"nv12"})
    <3>1. frame.device = NoDevice => fmt \in SoftwareFormats
      BY <1>1a, DeviceAssumption DEF FormatsOf
    <3> QED BY <1>5, <3>1 DEF Drawn
  <2> QED BY <1>5, <2>1, <2>2 DEF Drawn, D3D11DarkOnlyAs
<1>9. ren_initialized_' /\ ~broken' => render_target_view_' /\ video_texture_'
  BY <1>2, <1>5 DEF Drawn
<1> QED BY <1>1, <1>2, <1>3, <1>4, <1>6, <1>7, <1>8, <1>9 DEF RendererHeld

LEMMA DecoderKeepsRenderer ==
    ASSUME Decoding, RendererHeld, DecoderStep
    PROVE  Decoding' /\ RendererHeld'
<1>1. DecoderNext /\ UNCHANGED <<renVars, renderer_type, paired, shown>>
  BY DEF DecoderStep
<1>2. Decoding'
  BY <1>1, DecoderKeeps DEF renVars
<1>3. /\ frame' \in {frame, NoFrame} \/ (dec_initialized_ /\ frame' = Filled)
      /\ \/ epoch' = epoch + 1
         \/ epoch' = epoch /\ dec_initialized_' = FALSE
         \/ /\ epoch' = epoch /\ dec_initialized_' = dec_initialized_
            /\ codec_device' = codec_device
  BY <1>1, DecoderMoves
<1>4. epoch \in Nat /\ paired \in Nat /\ paired <= epoch
  BY DEF Decoding, DecoderHeld, RendererHeld
<1>5. UNCHANGED <<ren_initialized_, device_, zero_copy_enabled_, render_target_view_,
                  video_texture_, video_size_, broken, seen_sizes, drawn, paired, shown, renderer_type>>
  BY <1>1 DEF renVars
<1>6. ren_initialized_ /\ frame'.epoch = paired /\ frame'.device \in D3D11Devices =>
        zero_copy_enabled_ /\ device_ = frame'.device
  <2>1. CASE frame' = frame
    BY <2>1 DEF RendererHeld
  <2>2. CASE frame' = NoFrame
    BY <2>2, DeviceAssumption DEF NoFrame
  <2>3. CASE dec_initialized_ /\ frame' = Filled
    BY <2>3 DEF Filled, RendererHeld
  <2> QED BY <1>3, <2>1, <2>2, <2>3
<1>7. ren_initialized_ /\ dec_initialized_' /\ paired = epoch' /\ codec_device' \in D3D11Devices =>
        zero_copy_enabled_ /\ device_ = codec_device'
  <2>1. CASE epoch' = epoch + 1
    BY <1>4, <2>1
  <2>2. CASE epoch' = epoch /\ dec_initialized_' = FALSE
    BY <2>2
  <2>3. CASE /\ epoch' = epoch /\ dec_initialized_' = dec_initialized_
             /\ codec_device' = codec_device
    BY <2>3 DEF RendererHeld
  <2> QED BY <1>3, <2>1, <2>2, <2>3
<1>8. paired <= epoch'
  BY <1>3, <1>4
<1> QED BY <1>2, <1>5, <1>6, <1>7, <1>8
        DEF RendererHeld, WrongDeviceOnlyWhenReopened, D3D11DarkOnlyAs

-----------------------------------------------------------------------------
(* The SDL renderer.                                                       *)

\* The texture is Initialize's, or was made for a frame that was decoded in
\* software; it is missing only because another could not be made.
SDLHeld ==
    /\ sdl_initialized_ /\ texture_ = NoTexture => lostTo # "nothing"
    /\ ~configured /\ texture_ # NoTexture =>
         texture_.fmt \in SoftwareFormats \cap {"nv12", "yuv420p"}
    /\ SDLDarkOnlyAs
    /\ SDLWindowOwned

\* A texture that was made is one.
LEMMA TextureMade ==
    ASSUME NEW size, NEW fmt, HasSDLFormat(fmt)
    PROVE  [size |-> size, fmt |-> fmt] # NoTexture
<1>1. fmt # "none"
  BY DEF HasSDLFormat
<1> QED BY <1>1 DEF NoTexture

LEMMA SDLStepKeeps ==
    ASSUME SDLHeld, SDLStep
    PROVE  SDLHeld'
<1>1. shows' = "none"
  BY DEF SDLStep, SDLInitialize, SDLInitializeFails, SDLShutdown, SDLClear
<1>2. SDLDarkOnlyAs'
  BY <1>1 DEF SDLDarkOnlyAs
<1>3. ASSUME NEW kind \in {"own", "foreign"}, NEW size \in Sizes,
             NEW fmt \in {"nv12", "yuv420p"}, SDLInitialize(kind, size, fmt)
      PROVE  SDLHeld'
  <2>1. /\ texture_' = [size |-> size, fmt |-> fmt] /\ configured' = TRUE
        /\ sdl_initialized_' = TRUE /\ ~sdl_initialized_ /\ HasSDLFormat(fmt)
        /\ window_' = kind
        /\ windows' = IF kind = "own" THEN windows + 1 ELSE windows
    BY <1>3 DEF SDLInitialize, CreateTexture, MakeWindow
  <2>2. texture_' # NoTexture
    BY <2>1, TextureMade
  <2>3. windows = 0
    BY <2>1 DEF SDLHeld, SDLWindowOwned, One
  <2>4. SDLWindowOwned'
    BY <2>1, <2>3 DEF SDLWindowOwned, One
  <2> QED BY <1>2, <2>1, <2>2, <2>4 DEF SDLHeld
<1>4. ASSUME NEW kind \in {"own", "foreign"}, NEW size \in Sizes,
             NEW fmt \in {"nv12", "yuv420p"}, SDLInitializeFails(kind, size, fmt)
      PROVE  SDLHeld'
  <2>1. ~sdl_initialized_ /\ UNCHANGED <<sdl_initialized_, texture_, lostTo, configured>>
    BY <1>4 DEF SDLInitializeFails
  <2>2. window_ # "own" /\ windows = 0
    BY <2>1 DEF SDLHeld, SDLWindowOwned, One
  <2>3. window_' # "own" /\ windows' = 0
    BY <1>4, <2>2 DEF SDLInitializeFails, GiveUpWindow
  <2>4. SDLWindowOwned'
    BY <2>3 DEF SDLWindowOwned, One
  <2> QED BY <1>2, <2>1, <2>4 DEF SDLHeld
<1>5. CASE SDLShutdown
  <2>1. /\ sdl_initialized_' = FALSE /\ texture_' = NoTexture /\ window_' = "none"
        /\ windows' = IF window_ = "own" THEN windows - 1 ELSE windows
    BY <1>5 DEF SDLShutdown
  <2>2. SDLWindowOwned'
    BY <2>1 DEF SDLHeld, SDLWindowOwned, One
  <2> QED BY <1>2, <2>1, <2>2 DEF SDLHeld
<1>6. CASE SDLClear
  BY <1>2, <1>6 DEF SDLClear, SDLHeld, SDLWindowOwned
<1> QED BY <1>3, <1>4, <1>5, <1>6 DEF SDLStep

LEMMA SDLRenderKeeps ==
    ASSUME SDLHeld, NEW fmt \in FormatsOf(frame), NEW size \in Sizes, SDLRender(fmt, size)
    PROVE  SDLHeld'
<1>1. /\ sdl_initialized_ /\ UNCHANGED <<sdl_initialized_, window_, windows>>
      /\ showsFmt' = fmt
  BY DEF SDLRender
<1>2. fmt \in Formats /\ (fmt \in {"nv12", "yuv420p"} => fmt \in SoftwareFormats)
  BY ViewerAssumption DEF FormatsOf, Formats
<1>3. SDLWindowOwned'
  BY <1>1 DEF SDLHeld, SDLWindowOwned
<1>4. CASE /\ shows' = Updated(texture_, fmt)
           /\ UNCHANGED <<texture_, lostTo, configured>>
  <2>1. CASE texture_ = NoTexture
    <3>1. shows' = "untextured"
      <4>1. Updated(texture_, fmt) = "untextured"
        BY <2>1 DEF Updated
      <4> QED BY <1>4, <4>1
    <3>2. lostTo # "nothing"
      BY <1>1, <2>1 DEF SDLHeld
    <3> QED BY <1>1, <1>3, <1>4, <2>1, <3>1, <3>2 DEF SDLHeld, SDLDarkOnlyAs
  <2>2. CASE texture_ # NoTexture
    <3>1. /\ fmt = "surface" => shows' = "no_lines"
          /\ fmt = "other" => shows' = "garbage"
          /\ fmt \in {"nv12", "yuv420p"} =>
               shows' = IF texture_.fmt = fmt THEN "video" ELSE "mismatch"
      BY <1>4, <2>2 DEF Updated
    <3>2. shows' = "mismatch" =>
            configured \/ {"nv12", "yuv420p"} \subseteq SoftwareFormats
      <4>1. ASSUME shows' = "mismatch", ~configured
            PROVE  {"nv12", "yuv420p"} \subseteq SoftwareFormats
        <5>1. fmt \in {"nv12", "yuv420p"} /\ texture_.fmt # fmt
          BY <1>2, <3>1, <4>1 DEF Formats
        <5>2. texture_.fmt \in SoftwareFormats \cap {"nv12", "yuv420p"}
          BY <2>2, <4>1 DEF SDLHeld
        <5> QED BY <1>2, <5>1, <5>2
      <4> QED BY <4>1
    <3>3. SDLDarkOnlyAs'
      BY <1>1, <1>2, <1>4, <3>1, <3>2 DEF SDLDarkOnlyAs, Formats
    <3> QED BY <1>1, <1>3, <1>4, <3>3 DEF SDLHeld
  <2> QED BY <2>1, <2>2
<1>5. CASE /\ CreateTexture(size, fmt) /\ shows' = Updated(texture_', fmt)
           /\ configured' = FALSE
  <2>1. HasSDLFormat(fmt) /\ texture_' = [size |-> size, fmt |-> fmt]
    BY <1>5 DEF CreateTexture
  <2>2. texture_' # NoTexture /\ texture_'.fmt = fmt
    BY <2>1, TextureMade
  <2>3. fmt \in SoftwareFormats \cap {"nv12", "yuv420p"}
    BY <1>2, <2>1 DEF HasSDLFormat
  <2>4. shows' = "video"
    BY <1>5, <2>2, <2>3 DEF Updated
  <2>5. SDLDarkOnlyAs'
    BY <2>4 DEF SDLDarkOnlyAs
  <2> QED BY <1>3, <2>2, <2>3, <2>5 DEF SDLHeld
<1>6. CASE CreateTextureFails(fmt) /\ configured' = FALSE /\ shows' = "untextured"
  <2>1. texture_' = NoTexture /\ lostTo' # "nothing"
    BY <1>6 DEF CreateTextureFails
  <2>2. SDLDarkOnlyAs'
    BY <1>6, <2>1 DEF SDLDarkOnlyAs
  <2> QED BY <1>3, <2>1, <2>2 DEF SDLHeld
<1> QED BY <1>4, <1>5, <1>6 DEF SDLRender

-----------------------------------------------------------------------------
(* The viewer.                                                             *)

\* The decoder, the two renderers and what they hold, between two calls.
ViewerInv ==
    /\ Decoding
    /\ RendererHeld
    /\ SDLHeld

LEMMA ViewerInitially == ViewerInit => ViewerInv
<1> SUFFICES ASSUME ViewerInit
             PROVE  ViewerInv
  OBVIOUS
<1> USE DEF ViewerInit
<1>1. DecoderBooks
  BY LedgerEmpty DEF DecoderInit, CodecInit, DecoderBooks
<1>2. RefsBalanced
  <2>1. /\ mem \in Memory /\ detached \in [Devices -> Nat] /\ NoDevice \in DeviceOrNone
        /\ \A d \in Devices : mem.av[d] = 0 /\ mem.com[d] = 0 /\ detached[d] = 0
    BY DEF DevicesInit, RendererInit, Memory, DeviceOrNone
  <2>2. \A d \in Devices : d # NoDevice
    BY DeviceAssumption
  <2>3. Balanced(mem, NoDevice, NoDevice, FALSE, NoDevice, NoDevice, detached)
    BY <2>1, <2>2 DEF Balanced, AvOwed, One
  <2> QED BY <2>3 DEF DecoderInit, RendererInit, NoFrame, RefsBalanced
<1>3. DecoderHeld
  BY DEF DecoderInit, NoFrame, DecoderHeld, DeviceOrNone
<1>4. RendererHeld
  BY DEF DecoderInit, RendererInit, NoFrame, RendererHeld, WrongDeviceOnlyWhenReopened,
         D3D11DarkOnlyAs
<1>5. SDLHeld
  BY DEF SDLInit, SDLHeld, SDLDarkOnlyAs, SDLWindowOwned, One
<1> QED BY <1>1, <1>2, <1>3, <1>4, <1>5 DEF ViewerInv, Decoding

LEMMA ViewerInductive == ViewerInv /\ [ViewerNext]_viewerVars => ViewerInv'
<1> SUFFICES ASSUME ViewerInv, [ViewerNext]_viewerVars
             PROVE  ViewerInv'
  OBVIOUS
<1>1. Decoding /\ RendererHeld /\ SDLHeld
  BY DEF ViewerInv
<1>2. ASSUME UNCHANGED sdlVars
      PROVE  SDLHeld'
  BY <1>1, <1>2 DEF sdlVars, SDLHeld, SDLDarkOnlyAs, SDLWindowOwned
<1>3. ASSUME UNCHANGED <<mem, decVars, renVars>>
      PROVE  Decoding'
  BY <1>1, <1>3, RendererOnly DEF Decoding, RefsBalanced, renVars
<1>4. CASE DecoderStep
  BY <1>1, <1>2, <1>4, DecoderKeepsRenderer DEF DecoderStep, ViewerInv
<1>5. CASE InitializeRenderer
  BY <1>1, <1>2, <1>5, InitializeKeepsRenderer DEF InitializeRenderer, ViewerInv
<1>6. CASE RendererStep
  BY <1>1, <1>2, <1>6, StepKeepsRenderer DEF RendererStep, ViewerInv
<1>7. CASE RenderFrame
  BY <1>1, <1>2, <1>7, RenderKeepsRenderer DEF RenderFrame, ViewerInv
<1>8. CASE SDLStep
  <2>1. UNCHANGED <<mem, decVars, renVars, renderer_type, paired, shown>>
    BY <1>8 DEF SDLStep
  <2>2. RendererHeld'
    BY <1>1, <2>1 DEF decVars, renVars, RendererHeld, WrongDeviceOnlyWhenReopened,
                      D3D11DarkOnlyAs
  <2> QED BY <1>1, <1>3, <1>8, <2>1, <2>2, SDLStepKeeps DEF ViewerInv
<1>9. CASE SDLRenderFrame
  <2>1. /\ UNCHANGED <<mem, decVars, renVars, renderer_type, paired>>
        /\ renderer_type = "kSDL" /\ SDLHeld'
    BY <1>1, <1>9, SDLRenderKeeps DEF SDLRenderFrame
  <2>2. drawn' = "none"
    BY <1>1, <2>1 DEF RendererHeld, renVars
  <2>3. RendererHeld'
    BY <1>1, <2>1, <2>2 DEF decVars, renVars, RendererHeld, WrongDeviceOnlyWhenReopened,
                            D3D11DarkOnlyAs
  <2> QED BY <1>3, <2>1, <2>3 DEF ViewerInv
<1>10. CASE UNCHANGED viewerVars
  <2>1. UNCHANGED <<mem, decVars, renVars, sdlVars, renderer_type, paired, shown>>
    BY <1>10 DEF viewerVars
  <2>2. RendererHeld'
    BY <1>1, <2>1 DEF decVars, renVars, RendererHeld, WrongDeviceOnlyWhenReopened,
                      D3D11DarkOnlyAs
  <2> QED BY <1>2, <1>3, <2>1, <2>2 DEF ViewerInv
<1> QED BY <1>4, <1>5, <1>6, <1>7, <1>8, <1>9, <1>10 DEF ViewerNext

\* Decoder, renderer and their references agree, in every behaviour.
THEOREM ViewerInvariantHolds == ViewerSpec => []ViewerInv
BY ViewerInitially, ViewerInductive, PTL DEF ViewerSpec

\* No D3D11 device and no hardware context leaks or is released too early,
\* whatever the order in which the decoder and the renderer are initialized,
\* replaced and shut down, but for the references that Shutdown of a sharing
\* renderer detaches (HWDecoderContext, D3D11Renderer::Shutdown).
THEOREM DevicesBalance == ViewerSpec => []DeviceRefsAccounted
<1>1. ViewerInv => DeviceRefsAccounted
  BY DEF ViewerInv, Decoding, RefsBalanced, Balanced, AvOwed, DeviceRefsAccounted
<1> QED BY <1>1, ViewerInvariantHolds, PTL

\* The renderer copies between two devices only for a frame of another opening
\* than the one whose context it was given, and takes a texture for pixels only
\* for such a frame or for one of a hardware decoder without a D3D11 device
\* (D3D11Renderer::Initialize, Render), for any number of openings and devices.
THEOREM WrongDeviceNeedsReopening == ViewerSpec => []WrongDeviceOnlyWhenReopened
<1>1. ViewerInv => WrongDeviceOnlyWhenReopened
  BY DEF ViewerInv, RendererHeld
<1> QED BY <1>1, ViewerInvariantHolds, PTL

\* The frames of the decoder come out in order, each packet's once; a packet the
\* codec took is inside or its frame was given to the caller, but for what a
\* repeated send or a reported error cost (VideoDecoder::Decode, Flush and
\* FlushBuffers), for any number of packets.
THEOREM FramesReachTheCaller == ViewerSpec => []FramesAccounted
<1>1. ViewerInv => FramesAccounted
  BY LedgerAccounts DEF ViewerInv, Decoding, DecoderBooks, FramesAccounted
<1> QED BY <1>1, ViewerInvariantHolds, PTL

\* A frame that Render took stays dark, or is shown in part, only for the listed
\* reasons, for any sizes and any formats of decoded frames (D3D11Renderer,
\* SDLRenderer).
THEOREM DarkForAReason == ViewerSpec => []DarkOnlyAs
<1>1. ViewerInv => DarkOnlyAs
  BY DEF ViewerInv, RendererHeld, SDLHeld, DarkOnlyAs
<1> QED BY <1>1, ViewerInvariantHolds, PTL

\* The SDL renderer leaves no window of its own behind, however Initialize fails
\* (SDLRenderer::Initialize, Shutdown).
THEOREM WindowsOwned == ViewerSpec => []SDLWindowOwned
<1>1. ViewerInv => SDLWindowOwned
  BY DEF ViewerInv, SDLHeld
<1> QED BY <1>1, ViewerInvariantHolds, PTL
=============================================================================
