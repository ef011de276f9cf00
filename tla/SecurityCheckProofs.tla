------------------------ MODULE SecurityCheckProofs -------------------------
(***************************************************************************)
(* Proofs about SecurityCheck, for any ids without zero bytes, key sizes,  *)
(* nonces, cap and window of the replay cache, and any configuration.      *)
(*                                                                         *)
(* A device accepts under a signature of the server only the answer that   *)
(* was signed (AnswersAreGenuine): by the injectivity of the transcript,   *)
(* and because the check posts nothing but its script.  And each request   *)
(* gets the status it expects or one with a reason (VerdictsExplained):    *)
(* the server of the check is AuthServer, so its types hold, and CInv says *)
(* how the handler, the device table and the replay cache keep up with the *)
(* script.                                                                 *)
(***************************************************************************)
EXTENDS SecurityCheck, TranscriptsProofs, AuthServerProofs

(* A request as the check posts it. *)
Posted(r) ==
    /\ r.dev \in ZeroFree /\ r.n \in Sizes
    /\ r.nonce \in Bytes /\ Len(r.nonce) = Len(Fresh[1])

(* Whatever the check posts, with whatever signature, is well formed. *)
LEMMA PostIsPosted ==
    ASSUME NEW dev \in {Own, OwnTampered, Unregistered}, NEW n \in {32, 33, OversizedN},
           NEW i \in 1..8, NEW signedDev, NEW signedN, NEW pair
    PROVE  /\ Posted(Post(dev, n, Fresh[i], signedDev, signedN, pair))
           /\ Posted([Post(dev, n, Fresh[i], signedDev, signedN, pair) EXCEPT !.decodes = FALSE])
BY BytesAssumption DEF Posted, Post, ZeroFree, Bytes

(* The ten requests. *)
LEMMA ScriptRequests ==
    /\ Last = 10
    /\ Script[1].req = Post(Unregistered, 32, Fresh[1], Unregistered, 32, OtherPair)
    /\ Script[2].req = Post(Own, 32, Fresh[2], Own, 32, OwnPair)
    /\ Script[3].req = Post(Own, 33, Fresh[3], Own, 32, OwnPair)
    /\ Script[4].req = Post(OwnTampered, 32, Fresh[4], Own, 32, OwnPair)
    /\ Script[5].req = Post(Own, 32, Fresh[5], Own, 32, OwnPair)
    /\ Script[6].req = Post(Own, 32, Fresh[5], Own, 32, OwnPair)
    /\ Script[7].req = Post(Own, 32, Fresh[6], Own, 32, OwnPair)
    /\ Script[8].req = Post(Own, 32, Fresh[6], Own, 32, OwnPair)
    /\ Script[9].req = [Post(Own, 32, Fresh[7], Own, 32, OwnPair) EXCEPT !.decodes = FALSE]
    /\ Script[10].req = Post(Own, OversizedN, Fresh[8], Own, OversizedN, OwnPair)
BY DEF Last, Script, Check, SignedBy

(* ... and so is each of the ten requests. *)
LEMMA ScriptIsPosted == Last = 10 /\ \A k \in 1..Last : Posted(Script[k].req)
<1>1. \A i \in 1..8 :
          /\ Posted(Post(Unregistered, 32, Fresh[i], Unregistered, 32, OtherPair))
          /\ Posted(Post(Own, 32, Fresh[i], Own, 32, OwnPair))
          /\ Posted(Post(Own, 33, Fresh[i], Own, 32, OwnPair))
          /\ Posted(Post(OwnTampered, 32, Fresh[i], Own, 32, OwnPair))
          /\ Posted([Post(Own, 32, Fresh[i], Own, 32, OwnPair) EXCEPT !.decodes = FALSE])
          /\ Posted(Post(Own, OversizedN, Fresh[i], Own, OversizedN, OwnPair))
  BY PostIsPosted, Zenon
<1>2. /\ Posted(Script[1].req) /\ Posted(Script[2].req) /\ Posted(Script[3].req)
      /\ Posted(Script[4].req) /\ Posted(Script[5].req) /\ Posted(Script[6].req)
      /\ Posted(Script[7].req) /\ Posted(Script[8].req) /\ Posted(Script[9].req)
      /\ Posted(Script[10].req)
  BY <1>1, ScriptRequests
<1> QED BY <1>2, ScriptRequests

(* The posted request is one of the script. *)
PostedInScript == waiting => step \in 1..Last

(* Nothing is posted before the first request or after the last. *)
LEMMA PostedInScriptInvariance == CheckSpec => []PostedInScript
<1>1. CheckInit => PostedInScript
  BY DEF CheckInit, PostedInScript
<1>2. PostedInScript /\ [CheckNext]_<<vars, checkVars>> => PostedInScript'
  <2> SUFFICES ASSUME PostedInScript, [CheckNext]_<<vars, checkVars>>
               PROVE  PostedInScript'
    OBVIOUS
  <2>1. CASE EnrolOwn
    BY <2>1, ScriptIsPosted DEF EnrolOwn, PostedInScript
  <2>2. CASE PostNext
    BY <2>2 DEF PostNext, PostedInScript
  <2>3. CASE TakeStatus
    BY <2>3 DEF TakeStatus, PostedInScript
  <2>4. CASE Handle
    BY <2>4 DEF Handle, checkVars, PostedInScript
  <2>5. CASE Background
    BY <2>5 DEF Background, checkVars, PostedInScript
  <2>6. CASE ServerRestarts
    BY <2>6 DEF ServerRestarts, PostedInScript
  <2>7. CASE UNCHANGED <<vars, checkVars>>
    BY <2>7 DEF checkVars, PostedInScript
  <2> QED BY <2>1, <2>2, <2>3, <2>4, <2>5, <2>6, <2>7 DEF CheckNext
<1> QED BY <1>1, <1>2, PTL DEF CheckSpec

(* One signature, one answer: the transcripts of the two are equal, and    *)
(* so are their fields.                                                    *)
LEMMA GenuineIfPosted == PostedInScript => AnswersAreGenuine
<1> SUFFICES ASSUME PostedInScript, waiting,
                    NEW p \in SealedByServer, NEW q \in Sealed, NEW j \in 1..Last,
                    Accepts(Script[j].req, AnswerTo(j, q),
                            [key |-> restarts, tbs |-> Signed(AnswerTo(step, p))], restarts)
             PROVE  AnswerTo(j, q) = AnswerTo(step, p)
  BY DEF AnswersAreGenuine, Answered
<1> DEFINE r == Script[j].req
           s == Script[step].req
<1>1. Posted(r) /\ Posted(s)
  BY ScriptIsPosted DEF PostedInScript
<1> HIDE DEF r, s
<1>2. /\ p.ct \in Bytes /\ p.aeadNonce \in Bytes /\ p.entropyCt \in Bytes
      /\ q.ct \in Bytes /\ q.aeadNonce \in Bytes /\ q.entropyCt \in Bytes
      /\ Len(p.ct) = CtLen /\ Len(p.aeadNonce) = AeadNonceLen
  BY BytesAssumption DEF SealedByServer, Bytes
<1>3. /\ AnswerTo(j, q) = [dev |-> r.dev, n |-> r.n, nonce |-> r.nonce, ct |-> q.ct,
                           aeadNonce |-> q.aeadNonce, entropyCt |-> q.entropyCt]
      /\ AnswerTo(step, p) = [dev |-> s.dev, n |-> s.n, nonce |-> s.nonce, ct |-> p.ct,
                              aeadNonce |-> p.aeadNonce, entropyCt |-> p.entropyCt]
  BY DEF AnswerTo, r, s
<1>4. /\ Len(q.ct) = CtLen /\ Len(q.aeadNonce) = AeadNonceLen
      /\ Signed(AnswerTo(step, p)) = Signed(AnswerTo(j, q))
  BY <1>3 DEF Accepts, Signed, r
<1>5. WellFormed(AnswerTo(step, p)) /\ WellFormed(AnswerTo(j, q))
  BY <1>1, <1>2, <1>3 DEF Posted, WellFormed
<1>6. Len(s.nonce) = Len(r.nonce)
  BY <1>1 DEF Posted
<1>7. /\ s.dev = r.dev /\ s.n = r.n /\ s.nonce = r.nonce
      /\ p.ct = q.ct /\ p.aeadNonce = q.aeadNonce /\ p.entropyCt = q.entropyCt
  BY <1>2, <1>3, <1>4, <1>5, <1>6, SignedIsInjective
<1> QED BY <1>3, <1>7

(* A signature is worth something in a request only if it was made for the *)
(* request's own device id and n (with its nonce): what AuthServer takes   *)
(* for granted of signer, and why the altered requests of the check are    *)
(* refused (api.rs:277-310, security.rs:63-90).                            *)
THEOREM SignatureCoversRequest ==
    ASSUME NEW dev \in ZeroFree, NEW signedDev \in ZeroFree,
           NEW n \in Sizes, NEW signedN \in Sizes, NEW nonce \in Bytes,
           NEW pair, pair # Nobody,
           Post(dev, n, nonce, signedDev, signedN, pair).signer = pair
    PROVE  dev = signedDev /\ n = signedN
<1>1. ClientMsg(signedDev, signedN, nonce) = ClientMsg(dev, n, nonce)
  BY DEF Post
<1> QED BY <1>1, ClientMsgIsInjective

(* AnswersAreGenuine for every instance: what the device accepts under a   *)
(* signature of the server (client.rs:139-213) is the answer that api.rs   *)
(* signed, whichever answer to whichever request of the check arrives.     *)
THEOREM AnswersGenuine == CheckSpec => []AnswersAreGenuine
BY PostedInScriptInvariance, GenuineIfPosted, PTL
-----------------------------------------------------------------------------
(* The requests that are well signed and use a nonce for the first time,   *)
(* and those that use it again.                                            *)
FirstUses == {2, 5, 7, 10}
Reuses == {6, 8}

OwnKeys == OwnEnrolment.keys
Nonce(k) == Script[k].req.nonce
Where == task[Task].pc
Served(k) == ~TooLarge(Script[k].req.n) /\ devices[Own] # NoKeys

(* The window that a request posted at time t has opened for its nonce is  *)
(* on record, or it has closed.                                            *)
OnRecord(k, t) == cache[Own][Nonce(k)] >= t + TTL \/ clock >= t + TTL

(* The check goes through its script; posting and clock go together. *)
Paced ==
    /\ step \in 0..(Last + 2)
    /\ waiting \in BOOLEAN
    /\ posted \in Nat /\ posted <= clock
    /\ before \in Nat

(* Only the check's own device is ever enrolled, with its own keys. *)
OnlyOwn ==
    /\ \A d \in Devices \ {Own} : devices[d] = NoKeys
    /\ devices[Own] \in {NoKeys, OwnKeys}

(* The handler works on the posted request, as far as its verification     *)
(* lets it.                                                                *)
Handled ==
    /\ ~waiting => task[Task] = Idle
    /\ waiting /\ task[Task] # Idle =>
          /\ task[Task].req = Sent(step) /\ ~TooLarge(Script[step].req.n)
          /\ Where \in {"verify", "nonce", "entropy"} =>
                task[Task].req.dev = Own /\ task[Task].keys = OwnKeys /\ Served(step)
          /\ Where \in {"nonce", "entropy"} => step \in FirstUses \cup Reuses
          /\ Where = "nonce" => posted <= call[Task].now
          /\ Where = "entropy" /\ step \in Reuses => WindowClosed
          /\ Where = "entropy" /\ step \in FirstUses => OnRecord(step, posted)

(* A nonce is not in the cache before its first use is accepted. *)
Unspent ==
    \A k \in FirstUses :
        \/ step < k
        \/ step = k /\ (~waiting \/ (task[Task] # Idle /\ Where # "entropy"))
        => cache[Own][Nonce(k)] = NC!Absent

(* When a nonce is used again, its first use is on record. *)
Recorded ==
    /\ \A k \in Reuses :
          /\ step = k - 1 /\ Answered /\ Served(k - 1) => OnRecord(k - 1, posted)
          /\ step = k /\ ~waiting /\ Served(k) => OnRecord(k, posted)
          /\ step = k /\ waiting /\ Served(k) => OnRecord(k, before)

CInv == PostedInScript /\ Paced /\ OnlyOwn /\ Handled /\ Unspent /\ Recorded /\ VerdictsExplained
-----------------------------------------------------------------------------
(* The server of the check is AuthServer: what is proved of it holds here. *)
THEOREM CheckUsesServer == CheckSpec => Spec
<1>1. CheckInit => Init
  BY DEF CheckInit
<1>2. Task \in Tasks
  BY CheckAssumption
<1>3. ASSUME NEW k \in 1..Last PROVE Sent(k) \in Requests
  BY ScriptAssumption DEF Sent
<1>4. [CheckNext]_<<vars, checkVars>> => [Next]_vars
  <2> SUFFICES ASSUME [CheckNext]_<<vars, checkVars>> PROVE [Next]_vars
    OBVIOUS
  <2>1. CASE EnrolOwn
    BY <2>1, ScriptAssumption DEF EnrolOwn, Next
  <2>2. CASE PostNext
    <3>1. step \in 1..Last /\ Receive(Task, Sent(step))
      BY <2>2 DEF PostNext
    <3> QED BY <1>2, <1>3, <3>1, Zenon DEF Next
  <2>3. CASE TakeStatus
    BY <2>3 DEF TakeStatus
  <2>4. CASE Handle
    BY <1>2, <2>4 DEF Handle, Next, Step
  <2>5. CASE Background
    BY <2>5 DEF Background, Next
  <2>6. CASE ServerRestarts
    BY <2>6 DEF ServerRestarts, Next
  <2>7. CASE UNCHANGED <<vars, checkVars>>
    BY <2>7
  <2> QED BY <2>1, <2>2, <2>3, <2>4, <2>5, <2>6, <2>7 DEF CheckNext
<1> QED BY <1>1, <1>4, PTL DEF CheckSpec, Spec

LEMMA ServerTyped == CheckSpec => [](Carried /\ TypeOK)
BY CheckUsesServer, CarriedInvariance, TypeCorrectness, PTL
-----------------------------------------------------------------------------
(* What the table of requests says (security.rs:28-135): whose nonce it    *)
(* is, whether its signature is good, and which status is expected.        *)
LEMMA ScriptTable ==
    /\ \A k \in {1, 4} : Script[k].req.dev # Own /\ Script[k].pass = {401}
    /\ \A k \in {2, 3, 5, 6, 7, 8, 9, 10} : Script[k].req.dev = Own
    /\ Script[3].req.signer # OwnPair /\ Script[3].pass = {401}
    /\ ~Script[9].req.decodes /\ Script[9].pass = {400}
    /\ \A k \in {1, 2, 3, 4, 5, 6, 7, 8, 10} : Script[k].req.decodes
    /\ \A k \in FirstUses \cup Reuses : Script[k].req.signer = OwnPair
    /\ \A k \in {2, 5, 7} : Script[k].pass = {200}
    /\ \A k \in Reuses : Script[k].pass = {409} /\ Script[k].req.n = Script[k - 1].req.n
    /\ Script[10].pass = {400, 413, 502}
<1>1. /\ Script[1].pass = {401} /\ Script[2].pass = {200} /\ Script[3].pass = {401}
      /\ Script[4].pass = {401} /\ Script[5].pass = {200} /\ Script[6].pass = {409}
      /\ Script[7].pass = {200} /\ Script[8].pass = {409} /\ Script[9].pass = {400}
      /\ Script[10].pass = {400, 413, 502}
  BY DEF Script, Check
<1>2. Own # OwnTampered /\ Own # Unregistered
  BY CheckAssumption
<1>3. ASSUME NEW n, NEW i PROVE Post(Own, n, i, Own, n, OwnPair).signer = OwnPair
  BY DEF Post
<1>4. Post(Own, 33, Fresh[3], Own, 32, OwnPair).signer # OwnPair
  <2>1. OwnPair # Nobody
    BY CheckAssumption, InputsAssumption
  <2>2. Own \in ZeroFree /\ 32 \in Sizes /\ 33 \in Sizes /\ Fresh[3] \in Bytes
    BY BytesAssumption DEF ZeroFree, Bytes
  <2> QED BY <2>1, <2>2, SignatureCoversRequest
<1>5. ASSUME NEW dev, NEW n, NEW i, NEW sd, NEW sn, NEW pair
      PROVE  /\ Post(dev, n, i, sd, sn, pair).dev = dev /\ Post(dev, n, i, sd, sn, pair).n = n
             /\ Post(dev, n, i, sd, sn, pair).decodes
  BY DEF Post
<1>6. LET r == [Post(Own, 32, Fresh[7], Own, 32, OwnPair) EXCEPT !.decodes = FALSE]
      IN  r.dev = Own /\ ~r.decodes
  BY DEF Post
<1>7. /\ Script[1].req.dev # Own /\ Script[2].req.dev = Own /\ Script[3].req.dev = Own
      /\ Script[4].req.dev # Own /\ Script[5].req.dev = Own /\ Script[6].req.dev = Own
      /\ Script[7].req.dev = Own /\ Script[8].req.dev = Own /\ Script[9].req.dev = Own
      /\ Script[10].req.dev = Own
  BY ScriptRequests, <1>2, <1>5, <1>6, SMT
<1>8. /\ Script[1].req.decodes /\ Script[2].req.decodes /\ Script[3].req.decodes
      /\ Script[4].req.decodes /\ Script[5].req.decodes /\ Script[6].req.decodes
      /\ Script[7].req.decodes /\ Script[8].req.decodes /\ ~Script[9].req.decodes
      /\ Script[10].req.decodes
  BY ScriptRequests, <1>5, <1>6, SMT
<1>9. /\ Script[2].req.signer = OwnPair /\ Script[3].req.signer # OwnPair
      /\ Script[5].req.signer = OwnPair /\ Script[6].req.signer = OwnPair
      /\ Script[7].req.signer = OwnPair /\ Script[8].req.signer = OwnPair
      /\ Script[10].req.signer = OwnPair
  BY ScriptRequests, <1>3, <1>4, SMT
<1>10. Script[6].req.n = Script[6 - 1].req.n /\ Script[8].req.n = Script[8 - 1].req.n
  BY ScriptRequests, <1>5
<1> QED BY <1>1, <1>7, <1>8, <1>9, <1>10 DEF FirstUses, Reuses

(* Each request has the fields of one.                                     *)
HasFields(r) == DOMAIN r = {"dev", "n", "nonce", "decodes", "signer"}

LEMMA ScriptFields == \A k \in 1..Last : HasFields(Script[k].req)
<1>1. /\ HasFields(Script[1].req) /\ HasFields(Script[2].req) /\ HasFields(Script[3].req)
      /\ HasFields(Script[4].req) /\ HasFields(Script[5].req)
  BY ScriptRequests DEF HasFields, Post
<1>2. /\ HasFields(Script[6].req) /\ HasFields(Script[7].req) /\ HasFields(Script[8].req)
      /\ HasFields(Script[9].req) /\ HasFields(Script[10].req)
  BY ScriptRequests DEF HasFields, Post
<1> QED BY <1>1, <1>2, ScriptRequests

(* Its nonces: a first use is one, a reuse has the nonce of the request    *)
(* before it.                                                              *)
LEMMA ScriptNonces ==
    /\ \A k \in FirstUses, j \in FirstUses \cup Reuses : j < k => Nonce(j) # Nonce(k)
    /\ \A k \in Reuses : Nonce(k) = Nonce(k - 1)
<1>1. /\ Nonce(2) = Fresh[2] /\ Nonce(5) = Fresh[5] /\ Nonce(6) = Fresh[5]
      /\ Nonce(7) = Fresh[6] /\ Nonce(8) = Fresh[6] /\ Nonce(10) = Fresh[8]
  BY DEF Nonce, Script, Check, SignedBy, Post
<1>2. \A i, j \in 1..8 : i # j => Fresh[i] # Fresh[j]
  BY BytesAssumption, CheckAssumption
<1>3. /\ Fresh[2] # Fresh[5] /\ Fresh[2] # Fresh[6] /\ Fresh[2] # Fresh[8]
      /\ Fresh[5] # Fresh[6] /\ Fresh[5] # Fresh[8] /\ Fresh[6] # Fresh[8]
  BY <1>2
<1>4. \A k \in FirstUses, j \in FirstUses \cup Reuses : j < k => Nonce(j) # Nonce(k)
  BY <1>1, <1>3 DEF FirstUses, Reuses
<1>5. \A k \in Reuses : Nonce(k) = Nonce(k - 1)
  BY <1>1 DEF Reuses
<1> QED BY <1>4, <1>5

(* What the server is told of a request. *)
LEMMA SentFacts ==
    ASSUME NEW k \in 1..Last
    PROVE  /\ Sent(k) \in Requests
           /\ Sent(k).n = IF TooLarge(Script[k].req.n) THEN "too large" ELSE "allowed"
           /\ Sent(k).dev = Script[k].req.dev /\ Sent(k).nonce = Nonce(k)
           /\ Sent(k).decodes = Script[k].req.decodes /\ Sent(k).signer = Script[k].req.signer
           /\ Nonce(k) \in Nonces
<1> DEFINE r == Script[k].req
           n == IF TooLarge(r.n) THEN "too large" ELSE "allowed"
<1>1. Sent(k) \in Requests
  BY ScriptAssumption DEF Sent
<1>2. DOMAIN r = {"dev", "n", "nonce", "decodes", "signer"}
  BY ScriptFields DEF HasFields
<1> HIDE DEF r
<1>3. Sent(k) = [r EXCEPT !.n = n]
  BY DEF Sent, r
<1>4. Sent(k).n = n
  BY <1>2, <1>3
<1>5. /\ Sent(k).dev = r.dev /\ Sent(k).nonce = r.nonce
      /\ Sent(k).decodes = r.decodes /\ Sent(k).signer = r.signer
  BY <1>2, <1>3
<1>6. Sent(k).nonce \in Nonces
  BY <1>1, Inputs
<1> QED BY <1>1, <1>4, <1>5, <1>6 DEF r, Nonce
-----------------------------------------------------------------------------
(* Times are numbers, and no stamp is ahead of the clock.                  *)
LEMMA Times ==
    ASSUME TypeOK
    PROVE  /\ clock \in Nat /\ TTL \in Nat \ {0} /\ NC!Absent = 0
           /\ cache \in [Devices -> [Nonces -> Nat]]
           /\ sweep # NC!NoSweep => sweep.now \in Nat /\ sweep.now <= clock
           /\ call[Task] # NC!NoCall => call[Task].now \in Nat /\ call[Task].now <= clock
           /\ Where = "nonce" => /\ call[Task].dev = task[Task].req.dev
                                 /\ call[Task].nonce = task[Task].req.nonce
<1>1. clock \in Nat /\ TTL \in Nat \ {0} /\ NC!Absent = 0
  BY CacheAssumption DEF TypeOK, NC!TypeOK, NC!Stamps, NC!Absent
<1>2. cache \in [Devices -> [Nonces -> Nat]]
  BY CacheAssumption DEF TypeOK, NC!TypeOK, NC!Expiries
<1>3. sweep # NC!NoSweep => sweep.now \in Nat /\ sweep.now <= clock
  BY DEF TypeOK, NC!TypeOK, NC!Sweeps, NC!Stamps
<1>4. Task \in Tasks
  BY CheckAssumption
<1>5. call[Task] # NC!NoCall => call[Task].now \in Nat /\ call[Task].now <= clock
  BY <1>4 DEF TypeOK, NC!TypeOK, NC!Calls, NC!Stamps
<1>6. Where = "nonce" => /\ call[Task].dev = task[Task].req.dev
                         /\ call[Task].nonce = task[Task].req.nonce
  BY <1>4 DEF TypeOK, Where
<1> QED BY <1>1, <1>2, <1>3, <1>5, <1>6

(* The nonces of the script are nonces.                                    *)
LEMMA NonceTyped ==
    /\ Own \in Devices /\ Task \in Tasks /\ Tasks = {Task} /\ Last = 10
    /\ \A k \in FirstUses \cup Reuses : Nonce(k) \in Nonces /\ k \in 1..Last
    /\ \A k \in Reuses : k - 1 \in FirstUses
<1>1. Own \in Devices /\ Task \in Tasks /\ Tasks = {Task}
  BY CheckAssumption
<1>2. \A k \in FirstUses \cup Reuses : k \in 1..Last
  BY ScriptIsPosted DEF FirstUses, Reuses
<1>3. \A k \in FirstUses \cup Reuses : Nonce(k) \in Nonces
  BY <1>2, SentFacts
<1>4. \A k \in Reuses : k - 1 \in FirstUses
  BY DEF FirstUses, Reuses
<1> QED BY <1>1, <1>2, <1>3, <1>4, ScriptIsPosted

(* Nothing but the cache and the clock changes, and what leaves the cache  *)
(* has expired.                                                            *)
Passing ==
    /\ clock' \in Nat /\ clock <= clock'
    /\ \A d \in Devices, x \in Nonces :
          cache'[d][x] = cache[d][x] \/ (cache'[d][x] = 0 /\ cache[d][x] <= clock)

(* What is on record stays so.                                             *)
LEMMA RecordStays ==
    ASSUME TypeOK, Passing, NEW k \in FirstUses \cup Reuses, NEW t \in Nat,
           cache[Own][Nonce(k)] >= t + TTL \/ clock >= t + TTL
    PROVE  cache'[Own][Nonce(k)] >= t + TTL \/ clock' >= t + TTL
<1> DEFINE old == cache[Own][Nonce(k)]
           new == cache'[Own][Nonce(k)]
<1>1. old \in Nat /\ clock \in Nat /\ TTL \in Nat
  BY Times, NonceTyped
<1>2. clock' \in Nat /\ clock <= clock' /\ (new = old \/ (new = 0 /\ old <= clock))
  BY NonceTyped DEF Passing
<1>3. old >= t + TTL \/ clock >= t + TTL
  OBVIOUS
<1> HIDE DEF old, new
<1>4. new >= t + TTL \/ clock' >= t + TTL
  BY <1>1, <1>2, <1>3
<1> QED BY <1>4 DEF new

(* Time passes, or the sweeper runs.                                       *)
LEMMA PassingKeeps ==
    ASSUME CInv, TypeOK, Passing, UNCHANGED <<task, answer, devices, call, checkVars>>
    PROVE  CInv'
<1> USE DEF checkVars
<1>1. clock \in Nat /\ clock' \in Nat /\ clock <= clock' /\ TTL \in Nat /\ NC!Absent = 0
  BY Times DEF Passing
<1>2. Paced' /\ PostedInScript'
  BY <1>1 DEF CInv, Paced, PostedInScript
<1>3. OnlyOwn'
  BY DEF CInv, OnlyOwn
<1>4. WindowClosed => WindowClosed'
  <2>1. before \in Nat
    BY DEF CInv, Paced
  <2> QED BY <1>1, <2>1 DEF WindowClosed
<1>5. ASSUME NEW k \in FirstUses \cup Reuses
      PROVE  /\ OnRecord(k, posted) => OnRecord(k, posted)'
             /\ OnRecord(k, before) => OnRecord(k, before)'
  <2>1. posted \in Nat /\ before \in Nat
    BY DEF CInv, Paced
  <2>2. OnRecord(k, posted) => OnRecord(k, posted)'
    BY <2>1, RecordStays DEF OnRecord
  <2>3. OnRecord(k, before) => OnRecord(k, before)'
    BY <2>1, RecordStays DEF OnRecord
  <2> QED BY <2>2, <2>3
<1>6. Sent(step)' = Sent(step) /\ \A n : TooLarge(n)' = TooLarge(n)
  BY DEF Sent, TooLarge
<1>7. Handled'
  <2>1. Served(step)' = Served(step)
    BY <1>6 DEF Served, TooLarge
  <2> QED BY <1>4, <1>5, <1>6, <2>1 DEF CInv, Handled, Where, TooLarge
<1>8. Unspent'
  <2>1. ASSUME NEW k \in FirstUses, cache[Own][Nonce(k)] = 0 PROVE cache'[Own][Nonce(k)] = 0
    BY <2>1, NonceTyped DEF Passing
  <2> QED BY <1>1, <2>1 DEF CInv, Unspent, Where
<1>9. Recorded'
  <2>1. Answered' = Answered /\ \A k : Served(k)' = Served(k)
    BY <1>6 DEF Answered, Served, TooLarge
  <2> QED BY <1>5, <2>1, NonceTyped DEF CInv, Recorded
<1>10. VerdictsExplained'
  <2>1. Answered' = Answered /\ Passes' = Passes
    BY DEF Answered, Passes
  <2>2. Excused(step, answer[Task].status) => Excused(step, answer[Task].status)'
    BY <1>4, <1>6 DEF Excused
  <2> QED BY <2>1, <2>2 DEF CInv, VerdictsExplained
<1> QED BY <1>2, <1>3, <1>7, <1>8, <1>9, <1>10 DEF CInv

LEMMA BackgroundKeeps ==
    ASSUME CInv, TypeOK, Background \/ UNCHANGED <<vars, checkVars>>
    PROVE  CInv'
<1> USE DEF vars, cacheVars, serverVars
<1>1. clock \in Nat /\ cache \in [Devices -> [Nonces -> Nat]]
  BY Times
<1>2. CASE Background
  <2>1. UNCHANGED <<task, answer, devices, call, checkVars>>
    BY <1>2 DEF Background, Tick, SweepTick, SweepRun, NC!Tick, NC!SweepTick, NC!SweepRun
  <2>2. CASE Tick
    BY <1>1, <2>1, <2>2, PassingKeeps DEF Tick, NC!Tick, Passing
  <2>3. CASE SweepTick
    BY <1>1, <2>1, <2>3, PassingKeeps DEF SweepTick, NC!SweepTick, Passing
  <2>4. CASE SweepRun
    <3>1. sweep.now \in Nat /\ sweep.now <= clock /\ clock' = clock
      BY <2>4, Times DEF SweepRun, NC!SweepRun
    <3>2. cache' = [d \in Devices |-> NC!Swept(d, sweep.now)]
      BY <2>4 DEF SweepRun, NC!SweepRun
    <3>3. ASSUME NEW d \in Devices, NEW x \in Nonces
          PROVE  cache'[d][x] = cache[d][x] \/ (cache'[d][x] = 0 /\ cache[d][x] <= clock)
      <4>1. cache'[d][x] = IF cache[d][x] > sweep.now THEN cache[d][x] ELSE 0
        BY <3>2, Times DEF NC!Swept
      <4>2. cache[d][x] \in Nat
        BY <1>1
      <4> QED BY <1>1, <3>1, <4>1, <4>2
    <3> QED BY <1>1, <2>1, <3>1, <3>3, PassingKeeps DEF Passing
  <2> QED BY <1>2, <2>2, <2>3, <2>4 DEF Background
<1>3. CASE UNCHANGED <<vars, checkVars>>
  BY <1>1, <1>3, PassingKeeps DEF Passing
<1> QED BY <1>2, <1>3

(* The device is enrolled before anything is posted.                       *)
LEMMA EnrolKeeps ==
    ASSUME CInv, Carried, TypeOK, EnrolOwn
    PROVE  CInv'
<1>1. /\ step = 0 /\ step' = 1 /\ ~waiting
      /\ UNCHANGED <<config, waiting, allPassed, posted, before, cacheVars, task, answer>>
      /\ devices' = [devices EXCEPT ![Own] = OwnKeys]
  <2>1. ~waiting
    BY NonceTyped DEF EnrolOwn, CInv, Handled, PostedInScript, Paced
  <2> QED BY <2>1 DEF EnrolOwn, Enrol, OwnKeys, OwnEnrolment
<1>2. clock' = clock /\ cache' = cache /\ call' = call /\ sweep' = sweep
  BY <1>1 DEF cacheVars
<1>3. Paced' /\ PostedInScript'
  BY <1>1, <1>2, NonceTyped DEF CInv, Paced, PostedInScript
<1>4. OnlyOwn'
  BY <1>1 DEF CInv, OnlyOwn, Carried
<1>5. Handled'
  BY <1>1 DEF CInv, Handled
<1>6. Unspent'
  BY <1>1, <1>2 DEF CInv, Unspent, FirstUses, Where
<1>7. Recorded' /\ VerdictsExplained'
  BY <1>1 DEF Recorded, VerdictsExplained, Answered, Reuses
<1> QED BY <1>3, <1>4, <1>5, <1>6, <1>7 DEF CInv

(* The status is taken and the next request is due.                        *)
LEMMA TakeKeeps ==
    ASSUME CInv, TypeOK, TakeStatus
    PROVE  CInv'
<1>1. /\ waiting /\ task[Task] = Idle /\ step' = step + 1 /\ ~waiting'
      /\ UNCHANGED <<config, posted, before, clock, cache, call, task, answer, devices>>
  BY DEF TakeStatus, Answered, vars, cacheVars, serverVars
<1>2. step \in 1..10 /\ waiting' = FALSE
  BY <1>1, NonceTyped DEF CInv, PostedInScript, TakeStatus
<1>3. Paced' /\ PostedInScript'
  <2>1. step' \in 0..(Last + 2)
    BY <1>1, <1>2, NonceTyped
  <2> QED BY <1>1, <1>2, <2>1, Zenon DEF CInv, Paced, PostedInScript
<1>4. OnlyOwn'
  BY <1>1 DEF CInv, OnlyOwn
<1>5. Handled'
  BY <1>1 DEF Handled
<1>6. Unspent'
  <2>1. ASSUME NEW k \in FirstUses, step' <= k PROVE step < k /\ k \in Nat
    BY <1>1, <1>2, <2>1 DEF FirstUses
  <2>2. ASSUME NEW k \in FirstUses, step' < k \/ step' = k PROVE cache'[Own][Nonce(k)] = NC!Absent
    <3>1. step' <= k
      BY <1>1, <1>2, <2>2 DEF FirstUses
    <3> QED BY <1>1, <2>1, <3>1 DEF CInv, Unspent
  <2> QED BY <2>2 DEF Unspent
<1>7. Recorded'
  <2>1. ASSUME NEW k \in Reuses, step' = k, Served(k)' PROVE OnRecord(k, posted)'
    <3>1. step = k - 1
      BY <1>1, <1>2, <2>1 DEF Reuses
    <3>2. Served(k - 1)
      <4>1. Served(k)
        BY <1>1, <2>1 DEF Served, TooLarge
      <4> QED BY <4>1, ScriptTable DEF Served
    <3>3. OnRecord(k - 1, posted)
      BY <1>1, <3>1, <3>2 DEF CInv, Recorded, Answered
    <3> QED BY <1>1, <3>3, ScriptNonces DEF OnRecord
  <2> QED BY <1>2, <2>1 DEF Recorded, Answered
<1>8. VerdictsExplained'
  BY <1>1 DEF VerdictsExplained, Answered
<1> QED BY <1>3, <1>4, <1>5, <1>6, <1>7, <1>8 DEF CInv

(* A restart empties the device table and the cache.                       *)
LEMMA RestartKeeps ==
    ASSUME CInv, TypeOK, ServerRestarts
    PROVE  CInv'
<1>1. /\ \A d \in Devices : devices'[d] = NoKeys
      /\ task'[Task] = Idle
      /\ \A d \in Devices, x \in Nonces : cache'[d][x] = NC!Absent
      /\ UNCHANGED <<config, posted, before, clock>>
  BY NonceTyped DEF ServerRestarts, Restart, NC!Restart, NC!NoEntries
<1>2. waiting' = FALSE /\ (step' = step \/ step' = Last + 2)
  BY DEF ServerRestarts, CInv, Paced
<1>3. Paced' /\ PostedInScript'
  <2>1. step' \in 0..(Last + 2)
    BY <1>2, NonceTyped DEF CInv, Paced
  <2> QED BY <1>1, <1>2, <2>1, Zenon DEF CInv, Paced, PostedInScript
<1>4. OnlyOwn'
  BY <1>1, NonceTyped DEF OnlyOwn
<1>5. Handled'
  BY <1>1, <1>2 DEF Handled
<1>6. Unspent'
  BY <1>1, NonceTyped DEF Unspent
<1>7. Recorded'
  BY <1>1, <1>2, NonceTyped DEF Recorded, Served, Answered
<1>8. VerdictsExplained'
  BY <1>2 DEF VerdictsExplained, Answered
<1> QED BY <1>3, <1>4, <1>5, <1>6, <1>7, <1>8 DEF CInv

(* The next request is posted; one for too much is answered at once.       *)
LEMMA PostKeeps ==
    ASSUME CInv, Carried, TypeOK, PostNext
    PROVE  CInv'
<1>1. /\ step \in 1..10 /\ ~waiting /\ waiting' = TRUE
      /\ posted' = clock /\ before' = posted
      /\ UNCHANGED <<config, step, devices, clock, cache, call>>
  BY NonceTyped DEF PostNext, Receive, cacheVars
<1>2. /\ Sent(step).n = IF TooLarge(Script[step].req.n) THEN "too large" ELSE "allowed"
      /\ Sent(step)' = Sent(step) /\ \A n : TooLarge(n)' = TooLarge(n)
  BY <1>1, SentFacts, NonceTyped DEF Sent, TooLarge
<1>3. IF TooLarge(Script[step].req.n)
      THEN task' = task /\ answer' = [answer EXCEPT ![Task] = Refusal(400)]
      ELSE task' = [task EXCEPT ![Task] = At("lookup", Sent(step), NoKeys)]
  BY <1>2 DEF PostNext, Receive
<1>4. task[Task] = Idle
  BY <1>1 DEF CInv, Handled
<1>5. IF TooLarge(Script[step].req.n)
      THEN task'[Task] = Idle /\ answer'[Task] = Refusal(400)
      ELSE /\ task'[Task] # Idle /\ Where' = "lookup" /\ task'[Task].req = Sent(step)
  BY <1>3, <1>4, NonceTyped DEF Carried, TypeOK, Idle, At, Where
<1>6. Paced' /\ PostedInScript'
  BY <1>1, Times, NonceTyped DEF CInv, Paced, PostedInScript
<1>7. OnlyOwn'
  BY <1>1 DEF CInv, OnlyOwn
<1>8. Handled'
  BY <1>1, <1>2, <1>5 DEF Handled, Where
<1>9. Unspent'
  BY <1>1, <1>4 DEF CInv, Unspent
<1>10. Recorded'
  <2>1. ASSUME NEW k \in Reuses PROVE step' = k - 1 /\ Answered' => ~Served(k - 1)'
    BY <1>1, <1>2, <1>5 DEF Answered, Served
  <2>2. ASSUME NEW k \in Reuses, step' = k, Served(k)' PROVE OnRecord(k, before)'
    <3>1. Served(k)
      BY <1>1, <1>2, <2>2 DEF Served
    <3> QED BY <1>1, <2>2, <3>1 DEF CInv, Recorded, OnRecord
  <2> QED BY <1>1, <2>1, <2>2 DEF Recorded
<1>11. VerdictsExplained'
  <2>1. CASE TooLarge(Script[step].req.n)
    <3>1. answer'[Task].status = 400
      BY <1>5, <2>1 DEF Refusal
    <3>2. TooLarge(Script[step].req.n)'
      BY <1>1, <2>1 DEF TooLarge
    <3> QED BY <3>1, <3>2 DEF VerdictsExplained, Excused
  <2>2. CASE ~TooLarge(Script[step].req.n)
    BY <1>5, <2>2 DEF VerdictsExplained, Answered, Idle
  <2> QED BY <2>1, <2>2
<1> QED BY <1>6, <1>7, <1>8, <1>9, <1>10, <1>11 DEF CInv
-----------------------------------------------------------------------------
(* The handler works on the request that is posted.                        *)
LEMMA Working ==
    ASSUME CInv, Carried, TypeOK, Where \in {"lookup", "verify", "nonce", "entropy"}
    PROVE  /\ waiting /\ task[Task] # Idle /\ step \in 1..10
           /\ task[Task].req = Sent(step) /\ ~TooLarge(Script[step].req.n)
           /\ task[Task].req.dev = Script[step].req.dev /\ task[Task].req.nonce = Nonce(step)
           /\ task[Task].req.decodes = Script[step].req.decodes
           /\ task[Task].req.signer = Script[step].req.signer
           /\ task[Task].keys \in Keys \cup {NoKeys}
<1>1. task[Task] # Idle /\ task[Task].keys \in Keys \cup {NoKeys}
  BY Active, NonceTyped DEF Where
<1>2. waiting /\ step \in 1..10 /\ task[Task].req = Sent(step) /\ ~TooLarge(Script[step].req.n)
  BY <1>1, NonceTyped DEF CInv, Handled, PostedInScript
<1> QED BY <1>1, <1>2, SentFacts, NonceTyped

(* The request is answered as expected or for one of the reasons, and a    *)
(* first use that is served is on record.                                  *)
LEMMA EndsKeep ==
    ASSUME CInv, Carried, TypeOK, waiting, task[Task] # Idle, step \in 1..10,
           NEW a, Answer(Task, a), UNCHANGED <<clock, cache, devices, checkVars>>,
           a.status \in Script[step].pass \/ Excused(step, a.status),
           step \in FirstUses /\ Served(step) => OnRecord(step, posted)
    PROVE  CInv'
<1>1. task'[Task] = Idle /\ answer'[Task] = a
  BY NonceTyped DEF Answer, Carried, TypeOK
<1>2. UNCHANGED <<config, step, waiting, posted, before>>
  BY DEF checkVars
<1>3. \A n : TooLarge(n)' = TooLarge(n)
  BY <1>2 DEF TooLarge
<1>4. Paced' /\ PostedInScript'
  BY <1>2 DEF CInv, Paced, PostedInScript
<1>5. OnlyOwn'
  BY DEF CInv, OnlyOwn
<1>6. Handled'
  BY <1>1, <1>2 DEF Handled
<1>7. Unspent'
  BY <1>1, <1>2 DEF CInv, Unspent
<1>8. Recorded'
  <2>1. ASSUME NEW k \in Reuses, step' = k - 1, Served(k - 1)' PROVE OnRecord(k - 1, posted)'
    <3>1. step = k - 1 /\ step \in FirstUses /\ Served(step)
      BY <1>2, <1>3, <2>1, NonceTyped DEF Served
    <3>2. OnRecord(step, posted)
      BY <3>1
    <3> QED BY <1>2, <3>1, <3>2 DEF OnRecord
  <2>2. ASSUME NEW k \in Reuses, step' = k, Served(k)' PROVE OnRecord(k, before)'
    <3>1. Served(k)
      BY <1>3, <2>2 DEF Served
    <3> QED BY <1>2, <2>2, <3>1 DEF CInv, Recorded, OnRecord
  <2> QED BY <1>2, <2>1, <2>2 DEF Recorded
<1>9. VerdictsExplained'
  <2>1. Passes' \/ Excused(step, answer[Task].status)'
    BY <1>1, <1>2, <1>3 DEF Passes, Excused, WindowClosed
  <2> QED BY <2>1 DEF VerdictsExplained
<1> QED BY <1>4, <1>5, <1>6, <1>7, <1>8, <1>9 DEF CInv

(* The handler goes on, up to the nonce check.                             *)
LEMMA MovesKeep ==
    ASSUME CInv, Carried, TypeOK, waiting, task[Task] # Idle, step \in 1..10,
           Where # "entropy", task[Task].req.dev = Own, devices[Own] # NoKeys,
           NEW pc \in {"verify", "nonce"}, Goto(Task, pc, OwnKeys),
           UNCHANGED <<clock, cache, devices, checkVars>>,
           pc = "nonce" => step \in FirstUses \cup Reuses /\ posted <= call'[Task].now
    PROVE  CInv'
<1>1. OwnKeys \in Keys
  BY CheckAssumption DEF OwnKeys, OwnEnrolment, Keys
<1>2. /\ Where' = pc /\ task'[Task].req = task[Task].req /\ task'[Task].keys = OwnKeys
      /\ answer' = answer
  BY <1>1, GotoFacts, NonceTyped DEF Where
<1>3. task'[Task] # Idle
  BY <1>2 DEF Where, Idle
<1>4. UNCHANGED <<config, step, waiting, posted, before>>
  BY DEF checkVars
<1>5. Sent(step)' = Sent(step) /\ \A n : TooLarge(n)' = TooLarge(n)
  BY <1>4 DEF Sent, TooLarge
<1>6. Paced' /\ PostedInScript'
  BY <1>4 DEF CInv, Paced, PostedInScript
<1>7. OnlyOwn'
  BY DEF CInv, OnlyOwn
<1>8. Handled'
  <2>1. task[Task].req = Sent(step) /\ ~TooLarge(Script[step].req.n)
    BY DEF CInv, Handled
  <2>2. (task[Task].req = Sent(step) /\ ~TooLarge(Script[step].req.n))'
    BY <1>2, <1>4, <1>5, <2>1
  <2>3. Served(step)'
    BY <1>4, <2>2 DEF Served
  <2> QED BY <1>2, <1>3, <1>4, <2>2, <2>3 DEF Handled
<1>9. Unspent'
  BY <1>4 DEF CInv, Unspent
<1>10. Recorded'
  <2>1. ~Answered'
    BY <1>3 DEF Answered, Idle
  <2>2. ASSUME NEW k \in Reuses, step' = k, Served(k)' PROVE OnRecord(k, before)'
    <3>1. Served(k)
      BY <1>5, <2>2 DEF Served
    <3> QED BY <1>4, <2>2, <3>1 DEF CInv, Recorded, OnRecord
  <2> QED BY <1>4, <2>1, <2>2 DEF Recorded
<1>11. VerdictsExplained'
  BY <1>3 DEF VerdictsExplained, Answered, Idle
<1> QED BY <1>6, <1>7, <1>8, <1>9, <1>10, <1>11 DEF CInv

(* 1) Only the own device has keys, until a restart.                       *)
LEMMA LookupKeeps ==
    ASSUME CInv, Carried, TypeOK, Lookup(Task), UNCHANGED checkVars
    PROVE  CInv'
<1> USE DEF cacheVars
<1>1. /\ Where = "lookup" /\ UNCHANGED <<clock, cache, devices>>
      /\ LET keys == devices[task[Task].req.dev]
         IN  IF keys = NoKeys THEN Answer(Task, Refusal(401)) ELSE Goto(Task, "verify", keys)
  BY DEF Lookup, Where
<1>2. /\ waiting /\ task[Task] # Idle /\ step \in 1..10
      /\ task[Task].req.dev = Script[step].req.dev
  BY <1>1, Working
<1>3. task[Task].req.dev \in Devices
  BY <1>1, Active, NonceTyped DEF Where
<1>4. step \in {1, 4} => task[Task].req.dev # Own
  BY <1>2, ScriptTable
<1>5. step \notin {1, 4} => task[Task].req.dev = Own
  BY <1>2, ScriptTable
<1>6. CASE devices[task[Task].req.dev] = NoKeys
  <2>1. Answer(Task, Refusal(401)) /\ Refusal(401).status = 401
    BY <1>1, <1>6 DEF Refusal
  <2>2. 401 \in Script[step].pass \/ Excused(step, 401)
    BY <1>5, <1>6, ScriptTable DEF Excused
  <2>3. step \in FirstUses => ~Served(step)
    BY <1>5, <1>6 DEF FirstUses, Served
  <2> QED BY <1>1, <1>2, <2>1, <2>2, <2>3, EndsKeep
<1>7. CASE devices[task[Task].req.dev] # NoKeys
  <2>1. task[Task].req.dev = Own /\ devices[Own] = OwnKeys /\ devices[Own] # NoKeys
    BY <1>3, <1>7 DEF CInv, OnlyOwn
  <2>2. Goto(Task, "verify", OwnKeys)
    BY <1>1, <1>7, <2>1
  <2> QED BY <1>1, <1>2, <2>1, <2>2, MovesKeep
<1> QED BY <1>6, <1>7

(* 2) and 3) An altered request or one of a stranger gets no further.      *)
LEMMA VerifyKeeps ==
    ASSUME CInv, Carried, TypeOK, Verify(Task), UNCHANGED checkVars
    PROVE  CInv'
<1> USE DEF cacheVars
<1>1. Where = "verify" /\ UNCHANGED devices
  BY DEF Verify, Where
<1>2. /\ waiting /\ task[Task] # Idle /\ step \in 1..10
      /\ task[Task].req.dev = Script[step].req.dev
      /\ task[Task].req.decodes = Script[step].req.decodes
      /\ task[Task].req.signer = Script[step].req.signer
  BY <1>1, Working
<1>3. task[Task].req.dev = Own /\ task[Task].keys = OwnKeys /\ devices[Own] # NoKeys
  BY <1>1, <1>2 DEF CInv, Handled, Served
<1>4. step \notin {1, 4}
  <2>1. step \in {1, 4} => Script[step].req.dev # Own
    BY ScriptTable
  <2> QED BY <1>2, <1>3, <2>1
<1>5. OwnKeys.sig = OwnPair
  BY DEF OwnKeys, OwnEnrolment
<1>6. CASE ~task[Task].req.decodes /\ Answer(Task, Refusal(400)) /\ UNCHANGED cacheVars
  <2>1. step = 9
    BY <1>2, <1>4, <1>6, ScriptTable
  <2>2. 400 \in Script[step].pass /\ step \notin FirstUses
    BY <2>1, ScriptTable DEF FirstUses
  <2>3. Refusal(400).status = 400
    BY DEF Refusal
  <2> QED BY <1>1, <1>2, <1>6, <2>2, <2>3, EndsKeep
<1>7. CASE /\ task[Task].req.decodes /\ ~Verifies(task[Task].req, task[Task].keys)
           /\ Answer(Task, Refusal(401)) /\ UNCHANGED cacheVars
  <2>1. Script[step].req.signer # OwnPair /\ Script[step].req.decodes
    BY <1>2, <1>3, <1>5, <1>7 DEF Verifies
  <2>2. step = 3
    BY <1>2, <1>4, <2>1, ScriptTable DEF FirstUses, Reuses
  <2>3. 401 \in Script[step].pass /\ step \notin FirstUses
    BY <2>2, ScriptTable DEF FirstUses
  <2>4. Refusal(401).status = 401
    BY DEF Refusal
  <2> QED BY <1>1, <1>2, <1>7, <2>3, <2>4, EndsKeep
<1>8. CASE /\ task[Task].req.decodes /\ Verifies(task[Task].req, task[Task].keys)
           /\ NC!Call(Task, task[Task].req.dev, task[Task].req.nonce)
           /\ Goto(Task, "nonce", task[Task].keys)
  <2>1. Script[step].req.signer = OwnPair /\ Script[step].req.decodes
    BY <1>2, <1>3, <1>5, <1>8 DEF Verifies
  <2>2. step \in FirstUses \cup Reuses
    BY <1>2, <1>4, <2>1, ScriptTable DEF FirstUses, Reuses
  <2>3. UNCHANGED <<clock, cache>> /\ call'[Task].now = clock
    BY <1>8, NonceTyped DEF NC!Call, NC!Waiting, TypeOK, NC!TypeOK
  <2>4. posted <= call'[Task].now
    BY <2>3 DEF CInv, Paced
  <2>5. Goto(Task, "nonce", OwnKeys) /\ Where # "entropy"
    BY <1>1, <1>3, <1>8
  <2> QED BY <1>1, <1>2, <1>3, <2>2, <2>3, <2>4, <2>5, MovesKeep
<1> QED BY <1>6, <1>7, <1>8 DEF Verify

(* 4) Only a nonce that was used before is taken for a replay, ...         *)
LEMMA ReplayedKeeps ==
    ASSUME CInv, Carried, TypeOK, NonceReplayed(Task), UNCHANGED checkVars
    PROVE  CInv'
<1>1. /\ Where = "nonce" /\ Answer(Task, Refusal(409)) /\ UNCHANGED <<clock, cache, devices>>
      /\ call[Task] # NC!NoCall
      /\ cache[call[Task].dev][call[Task].nonce] > call[Task].now
  BY DEF NonceReplayed, NC!Reject, NC!IsReplay, Where
<1>2. /\ waiting /\ task[Task] # Idle /\ step \in 1..10
      /\ task[Task].req.nonce = Nonce(step)
  BY <1>1, Working
<1>3. task[Task].req.dev = Own /\ step \in FirstUses \cup Reuses
  BY <1>1, <1>2 DEF CInv, Handled
<1>4. cache[Own][Nonce(step)] > call[Task].now /\ call[Task].now \in Nat
  BY <1>1, <1>2, <1>3, Times
<1>5. step \notin FirstUses
  <2>1. step \in FirstUses => cache[Own][Nonce(step)] = 0
    BY <1>1, <1>2, Times DEF CInv, Unspent
  <2> QED BY <1>4, <2>1
<1>6. 409 \in Script[step].pass /\ Refusal(409).status = 409
  BY <1>3, <1>5, ScriptTable DEF Refusal
<1> QED BY <1>1, <1>2, <1>5, <1>6, EndsKeep

(* 5) to 12) A handler that has passed the nonce check is in the right     *)
(* place for 200, 500 or 502.                                              *)
LEMMA ServedKeeps ==
    ASSUME CInv, Carried, TypeOK, UNCHANGED checkVars,
           EntropyOk(Task) \/ (config.mode # "parallel_hybrid" /\ EntropyErr(Task))
    PROVE  CInv'
<1>1. Where = "entropy" /\ UNCHANGED <<clock, cache, devices>>
  BY DEF EntropyOk, EntropyErr, Where, cacheVars
<1>2. /\ waiting /\ task[Task] # Idle /\ step \in 1..10
      /\ ~TooLarge(Script[step].req.n)
  BY <1>1, Working
<1>3. task[Task].keys = OwnKeys /\ step \in FirstUses \cup Reuses
  BY <1>1, <1>2 DEF CInv, Handled
<1>4. step \in FirstUses => OnRecord(step, posted)
  BY <1>1, <1>2 DEF CInv, Handled
<1>5. SealKey(Task) # BadKey
  BY <1>3, CheckAssumption, InputsAssumption DEF SealKey, OwnKeys, OwnEnrolment
<1>6. \/ 200 \in Script[step].pass \/ step = Last
      \/ 409 \in Script[step].pass /\ WindowClosed
  <2>1. CASE step \in FirstUses
    BY <2>1, ScriptTable, NonceTyped DEF FirstUses
  <2>2. CASE step \in Reuses
    BY <1>1, <1>2, <2>2, ScriptTable DEF CInv, Handled
  <2> QED BY <1>3, <2>1, <2>2
<1>7. PICK a : /\ Answer(Task, a)
               /\ \/ a.status \in {200, 500}
                  \/ a.status = 502 /\ config.mode # "parallel_hybrid"
  BY <1>5 DEF EntropyOk, EntropyErr, Refusal
<1>8. Excused(step, a.status)
  BY <1>2, <1>6, <1>7 DEF Excused
<1> QED BY <1>1, <1>2, <1>4, <1>7, <1>8, EndsKeep

(* ... and a nonce that was used before is accepted only after its window  *)
(* has closed.  What is accepted is on record from then on.                *)
LEMMA FreshKeeps ==
    ASSUME CInv, Carried, TypeOK, NonceFresh(Task), UNCHANGED checkVars
    PROVE  CInv'
<1> DEFINE now == call[Task].now
           x == Nonce(step)
<1>1. /\ Where = "nonce" /\ Goto(Task, "entropy", task[Task].keys)
      /\ UNCHANGED <<clock, devices>> /\ call[Task] # NC!NoCall
  BY DEF NonceFresh, NC!Accept, Where
<1>2. /\ waiting /\ task[Task] # Idle /\ step \in 1..10
      /\ task[Task].req.nonce = x /\ task[Task].req = Sent(step)
      /\ ~TooLarge(Script[step].req.n)
  BY <1>1, Working
<1>3. /\ task[Task].req.dev = Own /\ task[Task].keys = OwnKeys /\ Served(step)
      /\ step \in FirstUses \cup Reuses /\ posted <= now
  BY <1>1, <1>2 DEF CInv, Handled
<1>4. /\ now \in Nat /\ now <= clock /\ clock \in Nat /\ TTL \in Nat \ {0} /\ NC!Absent = 0
      /\ posted \in Nat /\ before \in Nat
      /\ call[Task].dev = Own /\ call[Task].nonce = x
  BY <1>1, <1>2, <1>3, Times DEF CInv, Paced
<1>5. /\ Own \in Devices /\ x \in Nonces /\ Task \in Tasks
      /\ cache \in [Devices -> [Nonces -> Nat]]
  BY <1>3, NonceTyped, Times
<1>6. /\ ~(cache[Own][x] > now)
      /\ cache'[Own][x] = now + TTL
      /\ \A y \in Nonces : y # x => cache'[Own][y] = cache[Own][y] \/ cache'[Own][y] = 0
  <2> DEFINE d0 == call[Task].dev
             x0 == call[Task].nonce
  <2>1. /\ \E S : cache' = [cache EXCEPT ![d0] =
                               [y \in Nonces |-> IF y = x0 THEN now + TTL
                                                 ELSE IF y \in S THEN cache[d0][y]
                                                 ELSE NC!Absent]]
        /\ ~(cache[d0][x0] > now)
    BY DEF NonceFresh, NC!Accept, NC!IsReplay
  <2>2. d0 = Own /\ x0 = x
    BY <1>4
  <2> HIDE DEF now, x, d0, x0
  <2>3. /\ cache'[d0][x0] = now + TTL
        /\ \A y \in Nonces : y # x0 => cache'[d0][y] = cache[d0][y] \/ cache'[d0][y] = 0
    BY <1>4, <1>5, <2>1, <2>2
  <2> QED BY <2>1, <2>2, <2>3
<1>7. /\ Where' = "entropy" /\ task'[Task].req = task[Task].req /\ task'[Task].keys = OwnKeys
  BY <1>1, <1>2, <1>3, <1>5, Working, GotoFacts DEF Where
<1>8. task'[Task] # Idle
  BY <1>7 DEF Where, Idle
<1>9. UNCHANGED <<config, step, waiting, posted, before>>
  BY DEF checkVars
<1>10. Sent(step)' = Sent(step) /\ \A n : TooLarge(n)' = TooLarge(n)
  BY <1>9 DEF Sent, TooLarge
<1>11. Paced' /\ PostedInScript'
  BY <1>1, <1>9 DEF CInv, Paced, PostedInScript
<1>12. OnlyOwn'
  BY <1>1 DEF CInv, OnlyOwn
<1>13. step \in Reuses => WindowClosed
  <2>1. ASSUME step \in Reuses PROVE cache[Own][x] >= before + TTL \/ clock >= before + TTL
    BY <1>2, <1>3, <2>1 DEF CInv, Recorded, OnRecord
  <2>2. cache[Own][x] \in Nat
    BY <1>5
  <2> DEFINE e == cache[Own][x]
  <2>3. e \in Nat /\ ~(e > now) /\ (step \in Reuses => e >= before + TTL \/ clock >= before + TTL)
    BY <1>6, <2>1, <2>2
  <2> HIDE DEF e, now
  <2> QED BY <1>4, <2>3 DEF WindowClosed
<1>14. OnRecord(step, posted)'
  <2>1. cache'[Own][Nonce(step)] = now + TTL /\ now + TTL >= posted + TTL
    BY <1>3, <1>4, <1>6
  <2> QED BY <1>9, <2>1 DEF OnRecord, Nonce
<1>15. Handled'
  <2>1. (task[Task].req = Sent(step) /\ ~TooLarge(Script[step].req.n))'
    BY <1>2, <1>7, <1>9, <1>10
  <2>2. step \in Reuses => WindowClosed'
    BY <1>1, <1>9, <1>13 DEF WindowClosed
  <2>3. Served(step)'
    BY <1>1, <1>3, <1>9, <1>10 DEF Served
  <2> QED BY <1>1, <1>2, <1>3, <1>7, <1>8, <1>9, <1>14, <2>1, <2>2, <2>3 DEF Handled
<1>16. Unspent'
  <2>1. ASSUME NEW k \in FirstUses, step < k PROVE cache'[Own][Nonce(k)] = NC!Absent
    <3>1. cache[Own][Nonce(k)] = 0
      BY <1>4, <2>1 DEF CInv, Unspent
    <3>2. Nonce(k) # x /\ Nonce(k) \in Nonces
      BY <1>3, <2>1, ScriptNonces, NonceTyped
    <3> QED BY <1>4, <1>6, <3>1, <3>2
  <2> QED BY <1>2, <1>7, <1>8, <1>9, <2>1 DEF Unspent
<1>17. Recorded'
  <2>1. ~Answered'
    BY <1>8 DEF Answered
  <2>2. ASSUME NEW k \in Reuses, step' = k PROVE OnRecord(k, before)'
    <3>1. clock >= before + TTL
      BY <1>9, <1>13, <2>2 DEF WindowClosed
    <3> QED BY <1>1, <1>9, <3>1 DEF OnRecord
  <2> QED BY <1>2, <1>9, <2>1, <2>2 DEF Recorded
<1>18. VerdictsExplained'
  BY <1>8 DEF VerdictsExplained, Answered
<1> QED BY <1>11, <1>12, <1>15, <1>16, <1>17, <1>18 DEF CInv
-----------------------------------------------------------------------------
LEMMA CheckStep ==
    ASSUME CInv, Carried, TypeOK, [CheckNext]_<<vars, checkVars>>
    PROVE  CInv'
<1>1. CASE Handle
  BY <1>1, LookupKeeps, VerifyKeeps, FreshKeeps, ReplayedKeeps, ServedKeeps DEF Handle
<1>2. CASE Background \/ UNCHANGED <<vars, checkVars>>
  BY <1>2, BackgroundKeeps
<1>3. CASE EnrolOwn \/ PostNext \/ TakeStatus \/ ServerRestarts
  BY <1>3, EnrolKeeps, PostKeeps, TakeKeeps, RestartKeeps
<1> QED BY <1>1, <1>2, <1>3 DEF CheckNext

LEMMA CheckInvariance == CheckSpec => []CInv
<1>1. CheckInit => CInv
  <2> SUFFICES ASSUME CheckInit PROVE CInv
    OBVIOUS
  <2>1. /\ step = 0 /\ waiting = FALSE /\ posted = 0 /\ before = 0 /\ clock = 0
        /\ \A d \in Devices : devices[d] = NoKeys
        /\ task[Task] = Idle
        /\ \A d \in Devices, x \in Nonces : cache[d][x] = NC!Absent
    BY NonceTyped DEF CheckInit, Init, NC!Init, NC!NoEntries
  <2>2. PostedInScript /\ Paced
    <3>1. step \in 0..(Last + 2) /\ posted \in Nat /\ posted <= clock /\ before \in Nat
      BY <2>1, NonceTyped
    <3> QED BY <2>1, <3>1, Zenon DEF PostedInScript, Paced
  <2>3. OnlyOwn /\ Handled
    BY <2>1, NonceTyped DEF OnlyOwn, Handled
  <2>4. Unspent
    BY <2>1, NonceTyped DEF Unspent
  <2>5. Recorded /\ VerdictsExplained
    BY <2>1 DEF Recorded, VerdictsExplained, Answered, Reuses
  <2> QED BY <2>2, <2>3, <2>4, <2>5 DEF CInv
<1>2. CInv /\ Carried /\ TypeOK /\ [CheckNext]_<<vars, checkVars>> => CInv'
  BY CheckStep
<1> QED BY <1>1, <1>2, ServerTyped, PTL DEF CheckSpec

(* VerdictsExplained for every instance: whatever the cap of the cache,    *)
(* the length of the window, the maximum and the ids, each request of the  *)
(* check gets the status it expects or one that the configuration, a       *)
(* restart, the entropy source or a closed window explains (security.rs,   *)
(* api.rs).  In particular no fresh nonce is taken for a replay, no reuse  *)
(* inside the window passes, and no altered request is served.             *)
THEOREM VerdictsAreExplained == CheckSpec => []VerdictsExplained
<1>1. CInv => VerdictsExplained
  BY DEF CInv
<1> QED BY <1>1, CheckInvariance, PTL
=============================================================================
