----------------------------- MODULE BlockTypes -----------------------------
(* The names blocks, proposals and certificates are made of. *)
CONSTANTS
    Group,    \* group ids; they carry an epoch and change on re-formation
    Height,   \* block heights above genesis
    RoundId,
    Hash      \* block hashes
=============================================================================
