------------------------ MODULE MCContractValidation ------------------------
(***************************************************************************)
(* ContractValidation for TLC: the balances, contracts and revisions that  *)
(* are tried.  Each family is a transaction the checks accept, and the     *)
(* transactions that differ from it in one respect: one field, both output *)
(* lists, or the unlock hash together with the signatures.                 *)
(***************************************************************************)
EXTENDS ContractValidation

CONSTANTS
    Keys            \* the keys that sign: the renter's, the host's, others'

Renter == CHOOSE k \in Keys : TRUE
Host == CHOOSE k \in Keys \ {Renter} : TRUE

MCBalances == [Addresses -> 1..2]

Signed(k) == [by |-> k, ok |-> TRUE]
Other(k) == [by |-> k, ok |-> FALSE]    \* k's signature of something else

\* Two signatures of any two keys; one of the two spoilt, or recovering to
\* no key; none, one and three signatures.
SignaturesTried ==
    {<<Signed(a), Signed(b)>> : a, b \in Keys}
        \cup {<<Signed(Renter), Other(Host)>>, <<Other(Renter), Signed(Host)>>,
              <<ZeroSignature, Signed(Host)>>, <<Signed(Renter), ZeroSignature>>,
              <<>>, <<Signed(Renter)>>, <<ZeroSignature>>,
              <<Signed(Renter), Signed(Host), Signed(Renter)>>}

Conditions(timelock, keys) ==
    [Timelock |-> timelock, PublicKeys |-> keys, SignaturesRequired |-> 2]

\* Unlock conditions tried by themselves: the parties' in both orders, at
\* three timelocks, and the zero value.
ConditionsTried(h) ==
    {Conditions(t, keys) : t \in {0, h, h + 1}, keys \in {<<Renter, Host>>, <<Host, Renter>>}}
        \cup {ZeroUnlockConditions}

\* Unlock hash and signatures tried together: each of SignaturesTried with
\* the hash that names its keys, locked at h, at 0 or at h + 1, and with
\* the hash of the zero conditions.
AuthorisationsTried(h) ==
    {<<UnlockHash(RecoveredConditions(t, s)), s>> : t \in {0, h, h + 1}, s \in SignaturesTried}

OutputsTried == {<<>>, <<2>>, <<1, 1>>, <<0, 2>>, <<3>>, <<1, 2>>}

\* c with field f set to each of values.
Vary(c, f, values) == {[c EXCEPT ![f] = v] : v \in values}

GoodContract(h) ==
    [RenterCollateral |-> 1, HostCollateral |-> 1,
     WindowStart |-> h + 1, WindowEnd |-> h + 2, FileSize |-> 1,
     ValidProofOutputs |-> <<2>>, MissedProofOutputs |-> <<1, 1>>,
     UnlockHash |-> UnlockHash(Conditions(h, <<Renter, Host>>)),
     RevisionNumber |-> 0,
     Signatures |-> <<Signed(Renter), Signed(Host)>>]

MCContracts(h) ==
    LET good == GoodContract(h)
    IN  Vary(good, "RenterCollateral", 0..2)
            \cup Vary(good, "HostCollateral", 0..2)
            \cup Vary(good, "WindowStart", {0, h, h + 2})
            \cup Vary(good, "WindowEnd", {h + 1, h + 3})
            \cup Vary(good, "FileSize", {0})
            \cup {[good EXCEPT !.ValidProofOutputs = v, !.MissedProofOutputs = m] :
                    v, m \in OutputsTried}
            \cup Vary(good, "UnlockHash", {UnlockHash(uc) : uc \in ConditionsTried(h)})
            \cup {[good EXCEPT !.UnlockHash = a[1], !.Signatures = a[2]] :
                    a \in AuthorisationsTried(h)}

\* The conditions an unlock hash was made of (the model's hashes show them).
ConditionsOf(hash) ==
    [Timelock |-> hash[1], PublicKeys |-> hash[2], SignaturesRequired |-> hash[3]]

GoodRevision(id, fc) ==
    [ParentID |-> id,
     UnlockConditions |-> ConditionsOf(fc.UnlockHash),
     NewRevisionNumber |-> fc.RevisionNumber + 1,
     NewFileSize |-> fc.FileSize,
     NewWindowStart |-> height + 1, NewWindowEnd |-> height + 2,
     NewValidProofOutputs |-> fc.ValidProofOutputs,
     NewMissedProofOutputs |-> fc.MissedProofOutputs,
     NewUnlockHash |-> UnlockHash(Conditions(0, <<Renter, Host>>)),
     Signatures |-> <<Signed(Renter), Signed(Host)>>]

MCRevisions(id, fc) ==
    LET good == GoodRevision(id, fc)
    IN  Vary(good, "UnlockConditions", ConditionsTried(height))
            \cup Vary(good, "NewRevisionNumber",
                      {n \in 0..MaxRevision : fc.RevisionNumber <= n + 1})
            \cup Vary(good, "NewFileSize", {0, 1})
            \cup Vary(good, "NewWindowStart", {height, height + 2})
            \cup Vary(good, "NewWindowEnd", {height + 1, height + 3})
            \cup {[good EXCEPT !.NewValidProofOutputs = v, !.NewMissedProofOutputs = m] :
                    v, m \in OutputsTried}
            \cup Vary(good, "NewUnlockHash", {UnlockHash(uc) : uc \in ConditionsTried(height)})
            \cup {[good EXCEPT !.NewUnlockHash = a[1], !.Signatures = a[2]] :
                    a \in AuthorisationsTried(height)}

=============================================================================
