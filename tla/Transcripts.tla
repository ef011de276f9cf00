----------------------------- MODULE Transcripts -----------------------------
(***************************************************************************)
(* The byte strings that are signed and sealed: the client's message, the  *)
(* AAD and the transcript the server signs, as api.rs, client_iot/pq.rs    *)
(* and the benchmark's message.rs build them, and the device's acceptance  *)
(* of an answer.  Zero bytes separate the fields; no lengths are sent.     *)
(***************************************************************************)
EXTENDS Naturals, Sequences

CONSTANTS
    Byte,           \* 0..255
    Sizes,          \* the values of n
    Width,          \* bytes of an encoded n, 8
    LE,             \* u64::to_le_bytes
    CtLen,          \* bytes of a KEM ciphertext
    AeadNonceLen    \* 12

ASSUME ByteAssumption == 0 \in Byte /\ Width \in Nat

ASSUME LengthAssumption == CtLen \in Nat /\ AeadNonceLen \in Nat

ASSUME LEAssumption ==
    \A n \in Sizes :
        /\ LE[n] \in Seq(Byte) /\ Len(LE[n]) = Width
        /\ \A m \in Sizes : LE[n] = LE[m] => n = m

Zero == <<0>>

\* Variant: n is not signed.
ClientMsgWithoutN(dev, n, nonce) == dev \o (Zero \o nonce)

ClientMsg(dev, n, nonce) == dev \o (Zero \o (LE[n] \o (Zero \o nonce)))

Aad(dev, n, nonce, ct) == ClientMsg(dev, n, nonce \o (Zero \o ct))

\* Variant: the AEAD nonce is left out, as the comment of the client has it.
RespTbsShort(dev, n, nonce, ct, aeadNonce, entropyCt) ==
    Aad(dev, n, nonce, ct \o (Zero \o entropyCt))

RespTbs(dev, n, nonce, ct, aeadNonce, entropyCt) ==
    Aad(dev, n, nonce, ct \o (Zero \o (aeadNonce \o (Zero \o entropyCt))))

(* What the server signs of an answer. *)
Signed(a) == RespTbs(a.dev, a.n, a.nonce, a.ct, a.aeadNonce, a.entropyCt)

(* request_entropy_timed, up to its return: answer a under a signature     *)
(* that some key made over the bytes tbs is taken for the answer to        *)
(* request r.  The device compares what is echoed, checks the lengths, and *)
(* verifies over its own request and the sealed bytes it received.  That   *)
(* the answer also has to open is left out, which accepts more.            *)
Accepts(r, a, sig, serverKey) ==
    /\ a.nonce = r.nonce
    /\ a.dev = r.dev /\ a.n = r.n
    /\ Len(a.aeadNonce) = AeadNonceLen
    /\ Len(a.ct) = CtLen
    /\ sig.key = serverKey
    /\ sig.tbs = RespTbs(r.dev, r.n, r.nonce, a.ct, a.aeadNonce, a.entropyCt)
=============================================================================
