----------------------------- MODULE PasswordProofs -----------------------------
(***************************************************************************)
(* What PasswordService promises of every hash that can be stored, whoever *)
(* has made it and whatever has been made since.                           *)
(***************************************************************************)
EXTENDS Password, TLAPS

\* The stored hash is some hash; one that was made here is what hash_password() makes
\* of a valid password.
PasswordInv ==
  /\ stored \in HashType
  /\ made \in BOOLEAN
  /\ made => ValidPassword(stored.password) /\ stored = Hashed(stored.password)

\* A new hash is a hash.
LEMMA HashedIsAHash ==
  ASSUME NEW pw \in Passwords
  PROVE  Hashed(pw) \in HashType /\ Hashed(pw).password = pw
BY DEF Hashed, HashType, Cost, Default, ExpectedSaltLength

LEMMA PasswordInvariance == PasswordSpec => []PasswordInv
<1>1. PasswordInit => PasswordInv
  BY PasswordAssumption DEF PasswordInit, PasswordInv
<1>2. PasswordInv /\ [PasswordNext]_passwordVars => PasswordInv'
  <2> SUFFICES ASSUME PasswordInv, [PasswordNext]_passwordVars
               PROVE  PasswordInv'
    OBVIOUS
  <2>1. ASSUME NEW pw \in Passwords, Hash(pw) PROVE PasswordInv'
    BY <2>1, HashedIsAHash DEF Hash, PasswordInv
  <2>2. CASE UNCHANGED passwordVars
    BY <2>2 DEF PasswordInv, passwordVars
  <2> QED
    BY <2>1, <2>2 DEF PasswordNext
<1> QED
  BY <1>1, <1>2, PTL DEF PasswordSpec

\* What the costs of a hash within the bounds are.
LEMMA BoundedCosts ==
  ASSUME NEW h \in HashType, Bounded(h)
  PROVE  /\ h.m \in 0 .. MaxMemoryCostKib
         /\ h.t \in 0 .. MaxTimeCost
         /\ h.p \in 0 .. MaxParallelism
<1>1. h.m \in Cost /\ h.t \in Cost /\ h.p \in Cost
  BY DEF HashType
<1>2. ASSUME NEW c \in Cost, c # Missing, NEW n \in Nat, c <= n
      PROVE  c \in 0 .. n
  <2>1. c \in Nat
    BY <1>2, Zenon DEF Cost
  <2> QED
    BY <1>2, <2>1
<1>3. MaxMemoryCostKib \in Nat /\ MaxTimeCost \in Nat /\ MaxParallelism \in Nat
  BY DEF MaxMemoryCostKib, MaxTimeCost, MaxParallelism
<1>4. /\ h.m # Missing /\ h.m <= MaxMemoryCostKib
      /\ h.t # Missing /\ h.t <= MaxTimeCost
      /\ h.p # Missing /\ h.p <= MaxParallelism
  BY DEF Bounded
<1> QED
  BY <1>1, <1>2, <1>3, <1>4, Zenon

\* A hash with the policy's values is one that can be computed, unless argon2 refuses what
\* needs_rehash() does not look at.
LEMMA DefaultIsComputable ==
  ASSUME NEW h \in HashType, NeedsRehash(h) = "no"
  PROVE  /\ Bounded(h)
         /\ h.salt # Missing /\ h.output # Missing
         /\ Computable(h) <=> h.accepted /\ h.decodes
<1>1. /\ Bounded(h) /\ h.version = 19
      /\ h.m = 19456 /\ h.t = 2 /\ h.p = 1 /\ h.salt = 22 /\ h.output = 32
  BY DEF NeedsRehash, Default, ExpectedSaltLength
<1>2. h.salt # Missing /\ h.output # Missing
  <2>1. 22 \in Nat /\ 32 \in Nat
    OBVIOUS
  <2>2. Missing # 22 /\ Missing # 32
    BY <2>1, PasswordAssumption, Zenon
  <2> QED
    BY <1>1, <2>2
<1> QED
  BY <1>1, <1>2 DEF Computable

\* A hash made here verifies with its password and no other, and needs no replacement.
LEMMA HashedIsFinal ==
  ASSUME NEW pw \in Passwords, ValidPassword(pw)
  PROVE  /\ NeedsRehash(Hashed(pw)) = "no"
         /\ \A other \in Passwords : Verify(other, Hashed(pw)) = "yes" <=> other = pw
<1> DEFINE h == Hashed(pw)
<1>1. /\ h.length = 97 /\ h.parses /\ h.algorithm = "argon2id" /\ h.version = 19
      /\ h.m = 19456 /\ h.t = 2 /\ h.p = 1 /\ h.salt = 22 /\ h.output = 32
      /\ h.accepted /\ h.decodes /\ ~h.keyed /\ h.password = pw
  BY DEF Hashed, Default, ExpectedSaltLength
<1>2. h \in HashType
  BY HashedIsAHash
<1> HIDE DEF h
<1>3. Bounded(h)
  BY <1>1, PasswordAssumption
     DEF Bounded, MaxHashBytes, MaxMemoryCostKib, MaxTimeCost, MaxParallelism
<1>4. NeedsRehash(h) = "no"
  BY <1>1, <1>3 DEF NeedsRehash, Default, ExpectedSaltLength
<1>5. Computable(h) /\ h.salt # Missing /\ h.output # Missing
  BY <1>1, <1>2, <1>4, DefaultIsComputable
<1>6. ASSUME NEW other \in Passwords
      PROVE  Verify(other, h) = "yes" <=> other = pw
  BY <1>1, <1>3, <1>5 DEF Verify
<1> QED
  BY <1>4, <1>6 DEF h

\* After any number of changes of the password, and from any hash to begin with: what
\* hash_password() has stored is final, a hash that need not be replaced opens with its
\* password unless argon2 refuses what needs_rehash() does not look at or a key is missing,
\* one that opens is judged, and none makes the service compute without bounds.
THEOREM ServiceIsConsistent == PasswordSpec => []PasswordsAgree
<1>1. PasswordInv => FreshHashIsFinal
  <2> SUFFICES ASSUME PasswordInv, made PROVE FreshHashIsFinal
    BY DEF FreshHashIsFinal
  <2>1. stored.password \in Passwords
    BY DEF PasswordInv, HashType
  <2>2. ValidPassword(stored.password) /\ stored = Hashed(stored.password)
    BY DEF PasswordInv
  <2> QED
    BY <2>1, <2>2, HashedIsFinal DEF FreshHashIsFinal
<1>2. PasswordInv => CurrentVerifies
  BY DefaultIsComputable DEF PasswordInv, CurrentVerifies, Overlooked, Verify
<1>3. VerifiedIsJudged
  BY DEF VerifiedIsJudged, Verify, NeedsRehash
<1>4. PasswordInv => WorkIsBounded
  BY BoundedCosts DEF PasswordInv, WorkIsBounded, Computes
<1>5. PasswordInv => PasswordsAgree
  BY <1>1, <1>2, <1>3, <1>4 DEF PasswordsAgree
<1> QED
  BY <1>5, PasswordInvariance, PTL

=============================================================================
