------------------------- MODULE AdmissionControl -------------------------
(***************************************************************************)
(* Admission control of the mempool                                        *)
(* (savitri-mempool/src/mempool/admission.rs), a record adm of counters    *)
(* and de-duplication tables behind one mutex:                             *)
(*   senders, classes, devices, global   the counters the caps are read    *)
(*                                       from                              *)
(*   nonces   admitted_nonces: when a (sender, nonce) pair was admitted    *)
(*   seen     seen_transactions: when a hash was; a hash stands for one    *)
(*            transaction, and time 0 means no entry in both tables        *)
(*   contrib  contributions of the current round                           *)
(*   queued   the queued pool                                              *)
(* Checks on data the model does not carry (fee floor, balance, signature, *)
(* rate over a time window) are a refusal the pipeline may choose.         *)
(***************************************************************************)
EXTENDS QueuedPool

CONSTANTS Sender,
          Gap,            \* ADMISSION_MAX_MAIN_POOL_NONCE_GAP
          GapRpc,         \* ADMISSION_MAX_MAIN_POOL_NONCE_GAP_RPC
          MaxPerSender, MaxPerDevice, GlobalCap, ClassQuota,  \* AdmissionConfig
          MaxPerRound     \* RoundContribution.max_per_sender

\* The compile-time checks of nonce_limits.rs.
ASSUME AdmissionAssumption ==
    /\ Gap \in Nat /\ GapRpc \in Nat
    /\ Gap <= MaxNonceGap /\ Gap <= GapRpc

Class == {"Financial", "IoTData", "FederatedUpdate", "System"}

\* The classes with rate limit and round contributions.
Metered == {"IoTData", "FederatedUpdate"}

Slot(tx) == <<tx.sender, tx.nonce>>

NewAdmission ==
    [senders |-> [s \in Sender |-> 0], classes |-> [c \in Class |-> 0],
     devices |-> [s \in Sender |-> 0], global |-> 0,
     nonces |-> [p \in {Slot(t) : t \in Txs} |-> 0], seen |-> [t \in Txs |-> 0],
     contrib |-> [s \in Sender |-> 0], queued |-> EmptyQueue]

\* saturating_sub(1)
Down(n) == IF n = 0 THEN 0 ELSE n - 1

\* Steps 4 to 9 of check_admission_ext_with_source, read from the counters.
UnderCaps(adm, tx) ==
    /\ adm.senders[tx.sender] < MaxPerSender
    /\ adm.global < GlobalCap
    /\ adm.classes[tx.class] < ClassQuota[tx.class]
    /\ tx.class = "IoTData" => adm.devices[tx.sender] < MaxPerDevice
    /\ tx.class \in Metered => adm.contrib[tx.sender] < MaxPerRound

\* The account check works with nonce 0 for a sender without an account.  A
\* transaction has to wait in the queued pool when it is too far ahead, or when
\* its sender has no account and it did not come in over RPC.
MustQueue(tx, account, rpc) ==
    \/ tx.nonce > account.nonce + (IF rpc THEN GapRpc ELSE Gap)
    \/ ~account.exists /\ ~rpc

\* check_admission_ext_with_source: the outcome.  The queued pool is the only
\* state the check itself changes.
Outcome(adm, tx, hashed, account, rpc) ==
    IF adm.nonces[Slot(tx)] # 0 \/ tx.nonce < account.nonce THEN "Rejected"
    ELSE IF MustQueue(tx, account, rpc)
         THEN IF CanQueue(adm.queued, tx, account.nonce) THEN "Queued" ELSE "Rejected"
         ELSE IF (hashed /\ adm.seen[tx] # 0) \/ ~UnderCaps(adm, tx)
              THEN "Rejected" ELSE "Admitted"

RecordAdmission(adm, tx, hashed, now) ==
    [adm EXCEPT !.seen[tx] = IF hashed THEN now ELSE @,
                !.nonces[Slot(tx)] = now,
                !.senders[tx.sender] = @ + 1,
                !.classes[tx.class] = @ + 1,
                !.global = @ + 1,
                !.devices[tx.sender] = IF tx.class = "IoTData" THEN @ + 1 ELSE @,
                !.contrib[tx.sender] = IF tx.class \in Metered THEN @ + 1 ELSE @]

\* record_removal: the pair is forgotten only through the hash cache, so a
\* transaction admitted without a hash keeps its nonce reserved.
RecordRemoval(adm, tx, hashed) ==
    [adm EXCEPT !.seen[tx] = IF hashed THEN 0 ELSE @,
                !.nonces[Slot(tx)] = IF hashed /\ adm.seen[tx] # 0 THEN 0 ELSE @,
                !.senders[tx.sender] = Down(@),
                !.classes[tx.class] = Down(@),
                !.global = Down(@),
                !.devices[tx.sender] = IF tx.class = "IoTData" THEN Down(@) ELSE @]

\* record_restoration: the counters only; neither table learns of it.
RecordRestoration(adm, tx) ==
    [adm EXCEPT !.senders[tx.sender] = @ + 1,
                !.classes[tx.class] = @ + 1,
                !.global = @ + 1,
                !.devices[tx.sender] = IF tx.class = "IoTData" THEN @ + 1 ELSE @]

\* evict_aged_entries: both tables lose the entries admitted before a time.
EvictAged(adm, before) ==
    LET Young(t) == IF t < before THEN 0 ELSE t
    IN  [adm EXCEPT !.seen = [t \in Txs |-> Young(@[t])],
                    !.nonces = [p \in DOMAIN @ |-> Young(@[p])]]

NewRound(adm) == [adm EXCEPT !.contrib = [s \in Sender |-> 0]]
============================================================================
