---------------------------- MODULE ServerConfig ----------------------------
(***************************************************************************)
(* The configuration of the auth server: config.rs and the start of        *)
(* AppState::new.  Each setting has several environment variables; the     *)
(* first one that is set decides, and when its value does not parse the    *)
(* default holds, whatever the others say.                                 *)
(***************************************************************************)
EXTENDS Naturals, Sequences

CONSTANTS
    Numeral         \* the values that parse as a number, with that number

Unset == "unset"

(* env_any: the value of the first name that is set. *)
EnvAny(env, names) ==
    LET set == {i \in DOMAIN names : env[names[i]] # Unset}
    IN  IF set = {} THEN Unset ELSE env[names[CHOOSE i \in set : \A j \in set : i <= j]]

(* ... parsed as a number, or the default. *)
NumberOr(value, default) == IF value \in DOMAIN Numeral THEN Numeral[value] ELSE default

ModeNames == <<"ENTROPY_MODE", "QEaaS_ENTROPY_MODE", "QEAAS_ENTROPY_MODE">>
ReseedNames == <<"HYBRID_RESEED_AFTER_BYTES", "QEAAAS_RESEED_BYTES",
                 "QEAAS_RESEED_BYTES", "QEaaS_RESEED_BYTES">>
SeedNames == <<"HYBRID_QRNG_SEED_SIZE", "QEAAAS_QRNG_SEED_SIZE", "QEAAS_QRNG_SEED_SIZE">>
PoolNames == <<"HYBRID_POOL_SIZE", "QEAAAS_HYBRID_POOL_SIZE",
               "QEAAS_HYBRID_POOL_SIZE", "QEaaS_HYBRID_POOL_SIZE">>
MaxNames == <<"QEAAAS_MAX_ENTROPY_BYTES", "QEAAS_MAX_ENTROPY_BYTES",
              "QEaaS_MAX_ENTROPY_BYTES", "MAX_ENTROPY_REQUEST_BYTES">>

(* EntropyMode::from_str, after the default; what it does not know is an   *)
(* error.                                                                  *)
ModeOf(value) ==
    CASE value \in {Unset, "direct_qrng"} -> "direct_qrng"
      [] value = "hybrid_csprng" -> "hybrid_csprng"
      [] value \in {"parallel_hybrid", "hybrid_pool"} -> "parallel_hybrid"
      [] OTHER -> "error"

Settings(env) ==
    [mode |-> ModeOf(EnvAny(env, ModeNames)),
     poolSize |-> NumberOr(EnvAny(env, PoolNames), 8),
     seedSize |-> NumberOr(EnvAny(env, SeedNames), 32),
     reseedAfter |-> NumberOr(EnvAny(env, ReseedNames), 1024 * 1024),
     maxBytes |-> NumberOr(EnvAny(env, MaxNames), 1024 * 1024)]

(* AppState::new succeeds (the QRNG answering): a pool size of zero is an  *)
(* error in parallel_hybrid, a seed size of zero in both hybrid modes,     *)
(* where the first seed is fetched.                                        *)
Starts(s) ==
    /\ s.mode # "error"
    /\ s.mode = "parallel_hybrid" => s.poolSize > 0
    /\ s.mode \in {"hybrid_csprng", "parallel_hybrid"} => s.seedSize > 0
=============================================================================
