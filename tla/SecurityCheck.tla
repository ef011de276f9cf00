--------------------------- MODULE SecurityCheck ----------------------------
(***************************************************************************)
(* benchmark_client security-check: it enrols a device of its own and      *)
(* posts ten requests, one after the other, each with the status it        *)
(* expects, to the AuthServer of a configuration that has started.         *)
(*                                                                         *)
(* Who signed a request is computed here from the transcripts: a signature *)
(* is good for a request if it was made over the same bytes.  Meanwhile    *)
(* the clock advances, the sweeper runs, the entropy source may fail and   *)
(* the server may restart, which breaks the connection of a request in     *)
(* flight and ends the check with an error.                                *)
(***************************************************************************)
EXTENDS AuthServer, Transcripts, ServerConfig

CONSTANTS
    Task,               \* the handler of the check's requests
    Own, OwnTampered, Unregistered,     \* device ids
    OwnPair, OtherPair,                 \* key pairs
    Fresh,              \* the nonces the check draws: a sequence of distinct ones
    OversizedN,         \* --oversized-n
    Sealed,             \* sealed parts an answer may carry: ct, aeadNonce, entropyCt
    Envs                \* the environments the server may be started in

ASSUME CheckAssumption ==
    /\ Tasks = {Task}
    /\ {Own, OwnTampered, Unregistered} \subseteq Devices
    /\ Own \notin {OwnTampered, Unregistered}
    /\ OwnPair \in Pairs
    /\ \A i, j \in DOMAIN Fresh : i # j => Fresh[i] # Fresh[j]

(* The ids are text without a zero byte, and a nonce has 32 bytes. *)
ASSUME BytesAssumption ==
    /\ {Own, OwnTampered, Unregistered} \subseteq Seq(Byte \ {0})
    /\ {32, 33, OversizedN} \subseteq Sizes
    /\ 1..8 \subseteq DOMAIN Fresh
    /\ \A i \in 1..8 : Fresh[i] \in Seq(Byte) /\ Len(Fresh[i]) = Len(Fresh[1])
    /\ Sealed \subseteq [ct : Seq(Byte), aeadNonce : Seq(Byte), entropyCt : Seq(Byte)]

VARIABLES
    config,         \* the server's configuration
    step,           \* the check posts request number step; 0: it enrols; or it has ended
    waiting,        \* the request is posted
    allPassed,      \* every result so far is as expected
    posted,         \* history: when it was posted, ...
    before          \* ... and when the one before it was

checkVars == <<config, step, waiting, allPassed, posted, before>>

(* A request for n bytes under device id dev, carrying a signature by pair *)
(* over the message for signedDev and signedN.                             *)
Post(dev, n, nonce, signedDev, signedN, pair) ==
    [dev |-> dev, n |-> n, nonce |-> nonce, decodes |-> TRUE,
     signer |-> IF ClientMsg(signedDev, signedN, nonce) = ClientMsg(dev, n, nonce)
                THEN pair ELSE Nobody]

SignedBy(pair, dev, n, nonce) == Post(dev, n, nonce, dev, n, pair)

Check(req, pass) == [req |-> req, pass |-> pass]

(* run_security_check.  The reused nonce is signed anew, which the server  *)
(* cannot tell from an exact replay.                                       *)
Script ==
    << Check(SignedBy(OtherPair, Unregistered, 32, Fresh[1]), {401}),
       Check(SignedBy(OwnPair, Own, 32, Fresh[2]), {200}),
       Check(Post(Own, 33, Fresh[3], Own, 32, OwnPair), {401}),
       Check(Post(OwnTampered, 32, Fresh[4], Own, 32, OwnPair), {401}),
       Check(SignedBy(OwnPair, Own, 32, Fresh[5]), {200}),
       Check(SignedBy(OwnPair, Own, 32, Fresh[5]), {409}),
       Check(SignedBy(OwnPair, Own, 32, Fresh[6]), {200}),
       Check(SignedBy(OwnPair, Own, 32, Fresh[6]), {409}),
       Check([SignedBy(OwnPair, Own, 32, Fresh[7]) EXCEPT !.decodes = FALSE], {400}),
       Check(SignedBy(OwnPair, Own, OversizedN, Fresh[8]), {400, 413, 502}) >>

Last == Len(Script)

TooLarge(n) == n > config.maxBytes

(* What AuthServer is told of request k. *)
Sent(k) == [Script[k].req EXCEPT !.n = IF TooLarge(@) THEN "too large" ELSE "allowed"]

OwnEnrolment == [dev |-> Own, decodes |-> TRUE, keys |-> [kem |-> OwnPair, sig |-> OwnPair]]

(* The inputs of AuthServer are, or include, those of the check. *)
ASSUME ScriptAssumption ==
    /\ OwnEnrolment \in Enrolments
    /\ \A k \in 1..Last, n \in {"allowed", "too large"} :
          [Script[k].req EXCEPT !.n = n] \in Requests

CheckInit ==
    /\ Init
    /\ config \in {s \in {Settings(env) : env \in Envs} : Starts(s)}
    /\ step = 0 /\ waiting = FALSE /\ allPassed = TRUE /\ posted = 0 /\ before = 0
-----------------------------------------------------------------------------
(* iot.enroll *)
EnrolOwn ==
    /\ step = 0
    /\ Enrol(OwnEnrolment)
    /\ step' = 1
    /\ UNCHANGED <<config, waiting, allPassed, posted, before>>

(* check, post_status *)
PostNext ==
    /\ step \in 1..Last /\ ~waiting
    /\ Receive(Task, Sent(step))
    /\ waiting' = TRUE
    /\ posted' = clock /\ before' = posted
    /\ UNCHANGED <<config, step, allPassed>>

Answered == waiting /\ task[Task] = Idle

Passes == answer[Task].status \in Script[step].pass

(* The status is compared with the expected one; the next request is due.  *)
\* Variant: a failure of the entropy source is no answer.
TakeStatusServed ==
    /\ Answered /\ answer[Task].status # 502
    /\ waiting' = FALSE
    /\ step' = step + 1
    /\ allPassed' = (allPassed /\ Passes)
    /\ UNCHANGED <<config, posted, before, vars>>

TakeStatus ==
    /\ Answered
    /\ waiting' = FALSE
    /\ step' = step + 1
    /\ allPassed' = (allPassed /\ Passes)
    /\ UNCHANGED <<config, posted, before, vars>>

(* The handler.  In parallel_hybrid the source never fails (EntropyPool).  *)
Handle ==
    /\ \/ Lookup(Task) \/ Verify(Task) \/ NonceFresh(Task) \/ NonceReplayed(Task)
       \/ EntropyOk(Task)
       \/ config.mode # "parallel_hybrid" /\ EntropyErr(Task)
    /\ UNCHANGED checkVars

Background == (Tick \/ SweepTick \/ SweepRun) /\ UNCHANGED checkVars

(* A restart breaks the connection of a request in flight. *)
ServerRestarts ==
    /\ Restart
    /\ IF waiting THEN step' = Last + 2 /\ waiting' = FALSE ELSE UNCHANGED <<step, waiting>>
    /\ UNCHANGED <<config, allPassed, posted, before>>

CheckNext == EnrolOwn \/ PostNext \/ TakeStatus \/ Handle \/ Background \/ ServerRestarts

CheckSpec == CheckInit /\ [][CheckNext]_<<vars, checkVars>>

(* The check goes on, and the handler is polled as in AuthServer. *)
FairCheck ==
    CheckSpec /\ WF_<<vars, checkVars>>(EnrolOwn \/ PostNext \/ TakeStatus \/ Handle)
-----------------------------------------------------------------------------
(* The replay window of the request before may have closed. *)
WindowClosed == clock >= before + TTL

(* What a request may be answered beside what the check expects: *)
Excused(k, status) ==
    \/ status = 400 /\ TooLarge(Script[k].req.n)            \* a small configured maximum
    \/ status = 401 /\ devices[Own] = NoKeys                \* the server has restarted
    \/ /\ status \in {200, 500} \cup (IF config.mode = "parallel_hybrid" THEN {} ELSE {502})
       /\ \/ 200 \in Script[k].pass                        \* no bytes, or no seal
          \/ 409 \in Script[k].pass /\ WindowClosed
          \/ k = Last /\ ~TooLarge(Script[k].req.n)         \* a large configured maximum

(* README.md:277 and security.rs: each request is answered as the check    *)
(* expects, or for one of these reasons otherwise.  Whatever fails or is   *)
(* slow, a request that is altered or signed by a stranger is refused, a   *)
(* fresh nonce is never taken for a replay, and a replay is refused while  *)
(* the window is open, also when the first request was not served.         *)
VerdictsExplained ==
    Answered => Passes \/ Excused(step, answer[Task].status)

AnswerTo(k, p) ==
    LET req == Script[k].req
    IN  [dev |-> req.dev, n |-> req.n, nonce |-> req.nonce,
         ct |-> p.ct, aeadNonce |-> p.aeadNonce, entropyCt |-> p.entropyCt]

SealedByServer == {p \in Sealed : Len(p.ct) = CtLen /\ Len(p.aeadNonce) = AeadNonceLen}

(* Let the posted request have been served, with any sealed parts, and let *)
(* a device that waits for the answer to any of the check's requests get   *)
(* any sealed parts under the signature of that answer.  If the device     *)
(* accepts, it got that very answer, and asked for it: a late, mixed up or *)
(* spliced answer is not accepted.                                         *)
AnswersAreGenuine ==
    Answered /\ answer[Task].status = 200 =>
        \A p \in SealedByServer, q \in Sealed, j \in 1..Last :
            LET given == AnswerTo(step, p)
                got == AnswerTo(j, q)
            IN  Accepts(Script[j].req, got, [key |-> restarts, tbs |-> Signed(given)], restarts)
                    => got = given

(* The check ends, whatever the entropy source and the server do. *)
CheckEnds == <>(step > Last)
=============================================================================
