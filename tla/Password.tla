------------------------------ MODULE Password ------------------------------
(***************************************************************************)
(* PasswordService of crates/app/src/password.rs: hash, verify and         *)
(* needs_rehash applied to one stored hash, of whatever origin.            *)
(*                                                                         *)
(* A hash is a record of what a PHC string says: its length, whether it    *)
(* can be parsed, algorithm, version, costs, the lengths of salt and       *)
(* output, what the service does not look at but argon2 does, and what it  *)
(* was made from.  No parameter is given twice.                            *)
(***************************************************************************)
EXTENDS Naturals

CONSTANTS
  Missing,    \* a part that a PHC string does not have
  Passwords,  \* some passwords, with their length in bytes
  Hashes      \* the hashes to begin with

VARIABLES
  stored,  \* the stored hash
  made     \* history: whether hash_password() has made it

passwordVars == <<stored, made>>

MaxPasswordBytes == 1024
MaxHashBytes == 512
MaxMemoryCostKib == 256 * 1024
MaxTimeCost == 10
MaxParallelism == 8
ExpectedSaltLength == 22

\* Params::default() of the argon2 crate, and the length of its output.
Default == [m |-> 19456, t |-> 2, p |-> 1, output |-> 32]

\* A cost is a number of 32 bits, or not there.
Cost == Nat \cup {Missing}

HashType ==
  [length : Nat, parses : BOOLEAN, algorithm : {"argon2id", "argon2i", "argon2d"}, version : Cost,
   m : Cost, t : Cost, p : Cost, salt : Cost, output : Cost,
   accepted : BOOLEAN,   \* argon2 knows its further parameters, if any, and takes their values
   decodes : BOOLEAN,    \* its salt is the Base64 form of some bytes
   keyed : BOOLEAN,      \* it was made with a secret key, which the service does not have
   password : Passwords]

ASSUME PasswordAssumption ==
  /\ Missing \notin Nat
  /\ \A pw \in Passwords : pw.length \in Nat
  /\ Hashes \subseteq HashType

-----------------------------------------------------------------------------
ValidPassword(pw) == pw.length # 0 /\ pw.length <= MaxPasswordBytes

\* Mutant of Bounded: the lanes are not bounded.
BoundedButLanes(h) ==
  /\ h.length <= MaxHashBytes
  /\ h.parses
  /\ h.algorithm = "argon2id"
  /\ h.m # Missing /\ h.m <= MaxMemoryCostKib
  /\ h.t # Missing /\ h.t <= MaxTimeCost
  /\ h.p # Missing

\* parse_bounded_hash()
Bounded(h) ==
  /\ h.length <= MaxHashBytes
  /\ h.parses
  /\ h.algorithm = "argon2id"
  /\ h.m # Missing /\ h.m <= MaxMemoryCostKib
  /\ h.t # Missing /\ h.t <= MaxTimeCost
  /\ h.p # Missing /\ h.p <= MaxParallelism

\* What the argon2 crate can compute: it has lower bounds for the costs, two versions,
\* the newer one by default, salts of at least eight bytes that it decodes, and no further
\* parameters than associated data and the name of a key.
Computable(h) ==
  /\ h.p >= 1 /\ h.t >= 1 /\ h.m >= 8 * h.p
  /\ h.version \in {Missing, 16, 19}
  /\ h.salt >= 11 /\ h.decodes
  /\ h.accepted

\* Whether verify_password() starts the computation, ...
Computes(pw, h) ==
  ValidPassword(pw) /\ Bounded(h) /\ h.salt # Missing /\ h.output # Missing /\ Computable(h)

\* ... and what it answers; a hash without salt or output fits no password.
Verify(pw, h) ==
  IF ~ValidPassword(pw) \/ ~Bounded(h) THEN "error"
  ELSE IF h.salt = Missing \/ h.output = Missing THEN "no"
  ELSE IF ~Computable(h) THEN "error"
  ELSE IF h.password = pw /\ ~h.keyed THEN "yes" ELSE "no"

\* Mutants of NeedsRehash: the salt is not looked at; old versions are refused.
NeedsRehashAnySalt(h) ==
  IF ~Bounded(h) THEN "error"
  ELSE IF /\ h.version = 19
          /\ h.m = Default.m /\ h.t = Default.t /\ h.p = Default.p
          /\ h.output = Default.output
       THEN "no" ELSE "yes"
NeedsRehashNewOnly(h) ==
  IF ~Bounded(h) \/ h.version # 19 THEN "error"
  ELSE IF /\ h.m = Default.m /\ h.t = Default.t /\ h.p = Default.p
          /\ h.salt = ExpectedSaltLength
          /\ h.output = Default.output
       THEN "no" ELSE "yes"

NeedsRehash(h) ==
  IF ~Bounded(h) THEN "error"
  ELSE IF /\ h.algorithm = "argon2id"
          /\ h.version = 19
          /\ h.m = Default.m /\ h.t = Default.t /\ h.p = Default.p
          /\ h.salt = ExpectedSaltLength
          /\ h.output = Default.output
       THEN "no" ELSE "yes"

\* Mutant of Hashed: one more pass than the policy has.
HashedHarder(pw) ==
  [length |-> 97, parses |-> TRUE, algorithm |-> "argon2id", version |-> 19,
   m |-> Default.m, t |-> Default.t + 1, p |-> Default.p,
   salt |-> ExpectedSaltLength, output |-> Default.output,
   accepted |-> TRUE, decodes |-> TRUE, keyed |-> FALSE, password |-> pw]

\* What hash_password() returns: a random salt of 16 bytes, 22 characters in Base64, no
\* further parameters and no key.
Hashed(pw) ==
  [length |-> 97, parses |-> TRUE, algorithm |-> "argon2id", version |-> 19,
   m |-> Default.m, t |-> Default.t, p |-> Default.p,
   salt |-> ExpectedSaltLength, output |-> Default.output,
   accepted |-> TRUE, decodes |-> TRUE, keyed |-> FALSE, password |-> pw]

PasswordInit == stored \in Hashes /\ made = FALSE

\* hash_password() replaces the stored hash.
Hash(pw) ==
  /\ ValidPassword(pw)
  /\ stored' = Hashed(pw)
  /\ made' = TRUE

PasswordNext == \E pw \in Passwords : Hash(pw)

PasswordSpec == PasswordInit /\ [][PasswordNext]_passwordVars

-----------------------------------------------------------------------------
(* Correctness.                                                            *)

\* What hash_password() makes verifies with its password and no other, and is final:
\* needs_rehash() does not ask for it to be made again.
FreshHashIsFinal ==
  made =>
    /\ NeedsRehash(stored) = "no"
    /\ \A pw \in Passwords : Verify(pw, stored) = "yes" <=> pw = stored.password

\* needs_rehash() leaves a hash as it is that its own, valid password does not open exactly
\* if argon2 refuses the hash for something needs_rehash() does not look at, a further
\* parameter or a salt that does not decode, or if the hash was made with a secret key.
\* Nothing else, no version, cost or length, passes it and keeps the password from fitting.
Overlooked(h) == ~h.accepted \/ ~h.decodes \/ h.keyed

CurrentVerifies ==
  NeedsRehash(stored) = "no" /\ ValidPassword(stored.password) =>
    (Verify(stored.password, stored) = "yes" <=> ~Overlooked(stored))

\* Whoever has been let in can be asked for a new hash: needs_rehash() has an answer
\* for every hash that a password verifies against.
VerifiedIsJudged ==
  (\E pw \in Passwords : Verify(pw, stored) = "yes") => NeedsRehash(stored) \in {"yes", "no"}

\* No stored hash makes the service compute with more memory, passes or lanes than its
\* bounds allow, nor with a cost that it has not seen.
WorkIsBounded ==
  \A pw \in Passwords :
    Computes(pw, stored) =>
      /\ stored.m \in 0 .. MaxMemoryCostKib
      /\ stored.t \in 0 .. MaxTimeCost
      /\ stored.p \in 0 .. MaxParallelism

\* Hashing, verifying and asking for a new hash go together, whatever is stored.
PasswordsAgree == FreshHashIsFinal /\ CurrentVerifies /\ VerifiedIsJudged /\ WorkIsBounded

=============================================================================
