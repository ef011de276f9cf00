------------------------- MODULE TranscriptsProofs --------------------------
(***************************************************************************)
(* The framing by zero bytes, without lengths, is unambiguous: what        *)
(* precedes a separator is free of zero bytes (the device id) or has a     *)
(* known length (n, the nonces, the KEM ciphertext).                       *)
(***************************************************************************)
EXTENDS Transcripts, SequenceTheorems, TLAPS

Bytes == Seq(Byte)
ZeroFree == Seq(Byte \ {0})

(* A field, the separator, and what follows. *)
Then(a, u) == a \o (Zero \o u)

(* The separator is one zero byte. *)
LEMMA ZeroIsBytes == Zero \in Bytes /\ Len(Zero) = 1 /\ Zero[1] = 0
BY ByteAssumption DEF Zero, Bytes

(* Ids are bytes. *)
LEMMA ZeroFreeIsBytes == ASSUME NEW d \in ZeroFree PROVE d \in Bytes
BY SeqMonotonic DEF ZeroFree, Bytes

(* Fields of one length are told apart by what follows them. *)
LEMMA LengthSplit ==
    ASSUME NEW a \in Bytes, NEW b \in Bytes, NEW u \in Bytes, NEW v \in Bytes,
           Len(a) = Len(b), a \o u = b \o v
    PROVE  a = b /\ u = v
<1>1. \A i \in 1..Len(a) : a[i] = b[i]
  <2>1. TAKE i \in 1..Len(a)
  <2>2. Len(a) \in Nat /\ Len(u) \in Nat /\ Len(v) \in Nat
    BY LenProperties DEF Bytes
  <2>3. (a \o u)[i] = a[i]
    BY <2>2, ConcatProperties DEF Bytes
  <2>4. (b \o v)[i] = b[i]
    BY <2>2, ConcatProperties DEF Bytes
  <2> QED BY <2>3, <2>4
<1>2. a = b
  BY <1>1, SeqEqual DEF Bytes
<1>3. u = v
  BY <1>2, ConcatSimplifications DEF Bytes
<1> QED BY <1>2, <1>3

(* The first zero byte ends a field without one. *)
LEMMA NotShorter ==
    ASSUME NEW d \in ZeroFree, NEW e \in ZeroFree, NEW u \in Bytes, NEW v \in Bytes,
           d \o (Zero \o u) = e \o (Zero \o v)
    PROVE  ~ Len(d) < Len(e)
<1> SUFFICES ASSUME Len(d) < Len(e) PROVE FALSE
  OBVIOUS
<1>1. d \in Bytes /\ e \in Bytes /\ Zero \in Bytes /\ Len(Zero) = 1 /\ Zero[1] = 0
  BY ZeroFreeIsBytes, ZeroIsBytes
<1>2. Len(d) \in Nat /\ Len(e) \in Nat /\ Len(u) \in Nat /\ Len(v) \in Nat
  BY <1>1, LenProperties DEF Bytes
<1>3. /\ Zero \o u \in Bytes /\ Len(Zero \o u) = 1 + Len(u) /\ (Zero \o u)[1] = 0
      /\ Zero \o v \in Bytes /\ Len(Zero \o v) = 1 + Len(v)
  <2>1. \A w \in Bytes : /\ Zero \o w \in Bytes /\ Len(Zero \o w) = Len(Zero) + Len(w)
                        /\ \A k \in 1..Len(Zero) + Len(w) :
                              (Zero \o w)[k] = IF k <= Len(Zero) THEN Zero[k] ELSE w[k - Len(Zero)]
    BY <1>1, ConcatProperties DEF Bytes
  <2>2. 1 \in 1..Len(Zero) + Len(u) /\ 1 <= Len(Zero)
    BY <1>1, <1>2
  <2>3. (Zero \o u)[1] = Zero[1]
    BY <2>1, <2>2
  <2> QED BY <1>1, <2>1, <2>3
<1> DEFINE i == Len(d) + 1
<1>4. i \in 1..Len(d) + Len(Zero \o u) /\ i \in 1..Len(e) + Len(Zero \o v) /\ i \in 1..Len(e)
  BY <1>2, <1>3
<1>5. (d \o (Zero \o u))[i] = 0
  <2>1. (d \o (Zero \o u))[i] = IF i <= Len(d) THEN d[i] ELSE (Zero \o u)[i - Len(d)]
    <3> DEFINE u0 == Zero \o u
    <3>1. u0 \in Bytes /\ d \in Bytes /\ i \in 1..Len(d) + Len(u0)
      BY <1>1, <1>3, <1>4
    <3>2. (d \o u0)[i] = IF i <= Len(d) THEN d[i] ELSE u0[i - Len(d)]
      <4> HIDE DEF u0, i
      <4> QED BY <3>1, ConcatProperties DEF Bytes
    <3> QED BY <3>2
  <2>2. ~ i <= Len(d) /\ i - Len(d) = 1
    BY <1>2
  <2> QED BY <2>1, <2>2, <1>3
<1>6. (e \o (Zero \o v))[i] = e[i]
  <2>1. (e \o (Zero \o v))[i] = IF i <= Len(e) THEN e[i] ELSE (Zero \o v)[i - Len(e)]
    BY <1>1, <1>3, <1>4, ConcatProperties DEF Bytes
  <2> QED BY <2>1, <1>4
<1>7. e[i] # 0
  BY <1>4, ElementOfSeq DEF ZeroFree
<1> QED BY <1>5, <1>6, <1>7

(* Equal separators can be taken away. *)
LEMMA CancelZero ==
    ASSUME NEW u \in Bytes, NEW v \in Bytes, Zero \o u = Zero \o v
    PROVE  u = v
BY ZeroIsBytes, ConcatSimplifications DEF Bytes

(* Fields without zero bytes are told apart by the separator. *)
LEMMA ZeroSplit ==
    ASSUME NEW d \in ZeroFree, NEW e \in ZeroFree, NEW u \in Bytes, NEW v \in Bytes,
           Then(d, u) = Then(e, v)
    PROVE  d = e /\ u = v
<1>1. d \in Bytes /\ e \in Bytes /\ Zero \in Bytes
  BY ZeroFreeIsBytes, ZeroIsBytes
<1>2. Len(d) \in Nat /\ Len(e) \in Nat
  BY <1>1, LenProperties DEF Bytes
<1>3. Len(d) = Len(e)
  <2>1. ~ Len(d) < Len(e)
    BY NotShorter DEF Then
  <2>2. ~ Len(e) < Len(d)
    BY NotShorter DEF Then
  <2> QED BY <1>2, <2>1, <2>2
<1>4. Zero \o u \in Bytes /\ Zero \o v \in Bytes
  BY <1>1, ConcatProperties DEF Bytes
<1> DEFINE u0 == Zero \o u
           v0 == Zero \o v
<1>5. d \o u0 = e \o v0 /\ u0 \in Bytes /\ v0 \in Bytes
  BY <1>4 DEF Then
<1>6. d = e /\ u0 = v0
  <2> HIDE DEF u0, v0
  <2> QED BY <1>1, <1>3, <1>5, LengthSplit
<1>7. u = v
  BY <1>6, CancelZero
<1> QED BY <1>6, <1>7

(* A separator and the field before it, when the length is known. *)
LEMMA FieldSplit ==
    ASSUME NEW a \in Bytes, NEW b \in Bytes, NEW u \in Bytes, NEW v \in Bytes,
           Len(a) = Len(b), Then(a, u) = Then(b, v)
    PROVE  a = b /\ u = v
<1>1. Zero \in Bytes /\ Zero \o u \in Bytes /\ Zero \o v \in Bytes
  BY ZeroIsBytes, ConcatProperties DEF Bytes
<1> DEFINE u0 == Zero \o u
           v0 == Zero \o v
<1>2. a \o u0 = b \o v0 /\ u0 \in Bytes /\ v0 \in Bytes
  BY <1>1 DEF Then
<1>3. a = b /\ u0 = v0
  <2> HIDE DEF u0, v0
  <2> QED BY <1>2, LengthSplit
<1>4. u = v
  BY <1>3, CancelZero
<1> QED BY <1>3, <1>4

(* Framing yields bytes. *)
LEMMA Framed ==
    ASSUME NEW a \in Bytes, NEW u \in Bytes
    PROVE  Then(a, u) \in Bytes
<1>1. Zero \o u \in Bytes
  BY ZeroIsBytes, ConcatProperties DEF Bytes
<1> QED BY <1>1, ConcatProperties DEF Bytes, Then

(* The client's message determines the request, whatever follows n: a      *)
(* signature made for one device id, n and nonce is good for no other      *)
(* request, as long as ids are free of zero bytes, which neither side of   *)
(* the code looks at.                                                      *)
THEOREM ClientMsgIsInjective ==
    ASSUME NEW d \in ZeroFree, NEW e \in ZeroFree, NEW n \in Sizes, NEW m \in Sizes,
           NEW x \in Bytes, NEW y \in Bytes,
           ClientMsg(d, n, x) = ClientMsg(e, m, y)
    PROVE  d = e /\ n = m /\ x = y
<1>1. /\ LE[n] \in Bytes /\ LE[m] \in Bytes /\ Len(LE[n]) = Len(LE[m])
      /\ LE[n] = LE[m] => n = m
  BY LEAssumption DEF Bytes
<1>2. Then(LE[n], x) \in Bytes /\ Then(LE[m], y) \in Bytes
  BY <1>1, Framed
<1>3. d = e /\ Then(LE[n], x) = Then(LE[m], y)
  <2>1. Then(d, Then(LE[n], x)) = Then(e, Then(LE[m], y))
    BY DEF ClientMsg, Then
  <2> QED BY <1>2, <2>1, ZeroSplit
<1>4. LE[n] = LE[m] /\ x = y
  BY <1>1, <1>3, FieldSplit
<1> QED BY <1>1, <1>3, <1>4

(* An answer over bytes, of a device id without zero bytes. *)
WellFormed(a) ==
    /\ a.dev \in ZeroFree /\ a.n \in Sizes /\ a.nonce \in Bytes
    /\ a.ct \in Bytes /\ a.aeadNonce \in Bytes /\ a.entropyCt \in Bytes

(* What the server signs (api.rs:43-77) determines the answer, field by    *)
(* field, once the nonces, ciphertexts and AEAD nonces have the lengths    *)
(* the code checks: no answer can be cut into other fields under the same  *)
(* signature.                                                              *)
THEOREM SignedIsInjective ==
    ASSUME NEW a, NEW b, WellFormed(a), WellFormed(b),
           Len(a.nonce) = Len(b.nonce), Len(a.ct) = Len(b.ct),
           Len(a.aeadNonce) = Len(b.aeadNonce),
           Signed(a) = Signed(b)
    PROVE  /\ a.dev = b.dev /\ a.n = b.n /\ a.nonce = b.nonce
           /\ a.ct = b.ct /\ a.aeadNonce = b.aeadNonce /\ a.entropyCt = b.entropyCt
<1> DEFINE u(r) == Then(r.aeadNonce, r.entropyCt)
           v(r) == Then(r.ct, u(r))
           w(r) == Then(r.nonce, v(r))
<1>1. u(a) \in Bytes /\ u(b) \in Bytes
  BY Framed DEF WellFormed
<1> HIDE DEF u
<1>2. v(a) \in Bytes /\ v(b) \in Bytes
  BY <1>1, Framed DEF WellFormed
<1> HIDE DEF v
<1>3. w(a) \in Bytes /\ w(b) \in Bytes
  BY <1>2, Framed DEF WellFormed
<1> HIDE DEF w
<1>4. ClientMsg(a.dev, a.n, w(a)) = ClientMsg(b.dev, b.n, w(b))
  BY DEF Signed, RespTbs, Aad, Then, u, v, w
<1>5. a.dev = b.dev /\ a.n = b.n /\ w(a) = w(b)
  BY <1>3, <1>4, ClientMsgIsInjective DEF WellFormed
<1>6. a.nonce = b.nonce /\ v(a) = v(b)
  BY <1>2, <1>5, FieldSplit DEF WellFormed, w
<1>7. a.ct = b.ct /\ u(a) = u(b)
  BY <1>1, <1>6, FieldSplit DEF WellFormed, v
<1>8. a.aeadNonce = b.aeadNonce /\ a.entropyCt = b.entropyCt
  BY <1>7, FieldSplit DEF WellFormed, u
<1> QED BY <1>5, <1>6, <1>7, <1>8
=============================================================================
