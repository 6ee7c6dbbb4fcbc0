-------------------------- MODULE AccountLedgerProofs --------------------------
(****************************************************************************)
(* The ledger is strong enough: whoever keeps it leaves no account behind   *)
(* unrecorded.                                                              *)
(****************************************************************************)
EXTENDS AccountLedger, TLAPS

AllAnswered == \A a \in present : Answered(a)

LedgerTypeOK ==
  /\ claims \subseteq Users \X Accounts
  /\ present \subseteq Accounts

LedgerInv == LedgerTypeOK /\ AllAnswered

LEMMA EntryKeepsType ==
  ASSUME LedgerTypeOK, [Next]_ledger
  PROVE  LedgerTypeOK'
<1>1. CASE \E o \in Users, a \in Accounts :
             \/ Claim(o, a) \/ Release(o, a) \/ \E b \in Accounts : Rename(o, a, b)
  BY <1>1 DEF LedgerTypeOK, Claim, Release, Rename
<1>2. CASE \E a \in Accounts : Provide(a) \/ LoseTrack(a) \/ Stray(a) \/ Abandon(a)
  BY <1>2 DEF LedgerTypeOK, Provide, LoseTrack, Stray, Abandon
<1>3. CASE Vanish \/ ServersChange \/ UNCHANGED ledger
  BY <1>3 DEF LedgerTypeOK, Vanish, ServersChange, ledger
<1> QED
  BY <1>1, <1>2, <1>3 DEF Next

\* Abandoned accounts stay abandoned, so only a claim that goes can hurt: Release
\* asks for the account to be gone, Rename abandons it.
LEMMA EntryKeepsAnswers ==
  ASSUME LedgerInv, [Next]_ledger
  PROVE  AllAnswered'
<1> USE DEF LedgerInv, LedgerTypeOK, AllAnswered, Answered
<1>1. ASSUME NEW o \in Users, NEW a \in Accounts,
             Claim(o, a) \/ Release(o, a) \/ \E b \in Accounts : Rename(o, a, b)
      PROVE  AllAnswered'
  <2>1. CASE Claim(o, a)
    BY <2>1 DEF Claim
  <2>2. CASE Release(o, a)
    BY <2>2 DEF Release
  <2>3. CASE \E b \in Accounts : Rename(o, a, b)
    BY <2>3 DEF Rename
  <2> QED
    BY <1>1, <2>1, <2>2, <2>3
<1>2. ASSUME NEW a \in Accounts, Provide(a) \/ LoseTrack(a) \/ Stray(a) \/ Abandon(a)
      PROVE  AllAnswered'
  BY <1>2 DEF Provide, LoseTrack, Stray, Abandon
<1>3. CASE Vanish \/ ServersChange \/ UNCHANGED ledger
  BY <1>3 DEF Vanish, ServersChange, ledger
<1> QED
  BY <1>1, <1>2, <1>3 DEF Next

\* Whoever keeps the ledger never has an account that nobody answers for: this is
\* what the finalizer of SftpGoUserReconciler is for, without its machinery.
THEOREM EveryAccountIsAnswered == Spec => []AllAnswered
<1>1. Init => LedgerInv
  BY DEF Init, LedgerInv, LedgerTypeOK, AllAnswered
<1>2. LedgerInv /\ [Next]_ledger => LedgerInv'
  BY EntryKeepsType, EntryKeepsAnswers DEF LedgerInv
<1>3. LedgerInv => AllAnswered
  BY DEF LedgerInv
<1> QED
  BY <1>1, <1>2, <1>3, PTL DEF Spec
================================================================================
