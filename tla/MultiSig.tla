------------------------------ MODULE MultiSig ------------------------------
(***************************************************************************)
(* check_multisig (tari_script/src/script.rs): are the m signatures on top of  *)
(* the stack signatures by m of the n public keys?  One action is one turn of  *)
(* the loop over the signatures.  A signature names the key it verifies under  *)
(* and a nonce, since a key can sign more than once.                         *)
(***************************************************************************)
EXTENDS Integers, Sequences, FiniteSets, SequencesExt, Bags, BagsExt

CONSTANTS
    Keys,           \* public keys
    Nonces,         \* a key's signatures of the message
    NoKey,          \* a signature by NoKey verifies under no key of the script
    Limit           \* MAX_MULTISIG_LIMIT

Signatures == [key : Keys \cup {NoKey}, nonce : Nonces]

VARIABLES
    public_keys, m, n,  \* the opcode's arguments
    signatures,         \* popped from the stack
    pos,                \* signatures seen
    key_signed, sig_set,
    agg_pub_key,        \* the keys that are summed up, as a bag
    result              \* "checking", "bounds", "none" or "some"

vars == <<public_keys, m, n, signatures, pos, key_signed, sig_set, agg_pub_key, result>>
args == <<public_keys, m, n, signatures>>

\* m and n are what the script says; the stack holds enough signatures.
Init ==
    /\ public_keys \in BoundedSeq(Keys, Limit + 1)
    /\ n \in 0..(Limit + 1) /\ m \in 0..(Limit + 1)
    /\ LET inBounds == m # 0 /\ n # 0 /\ m <= n /\ n <= Limit /\ Len(public_keys) = n
       IN  /\ result = IF inBounds THEN "checking" ELSE "bounds"
           /\ signatures \in IF inBounds THEN [1..m -> Signatures] ELSE {<<>>}
    /\ pos = 0 /\ sig_set = {} /\ agg_pub_key = EmptyBag
    /\ key_signed = [i \in DOMAIN public_keys |-> FALSE]

\* Mutant: a key may sign again.
AnyMatches(s) == {i \in DOMAIN public_keys : s \notin sig_set /\ public_keys[i] = s.key}

Matches(s) == {i \in DOMAIN public_keys : s \notin sig_set /\ ~ key_signed[i] /\ public_keys[i] = s.key}

Sum(i) == BagAdd(agg_pub_key, public_keys[i])

\* A signature seen before matches nothing, and is in sig_set all the same.
CheckSignature ==
    /\ result = "checking" /\ pos < Len(signatures)
    /\ pos' = pos + 1
    /\ LET s == signatures[pos + 1] IN
       \/ \E i \in Matches(s) :
            /\ \A j \in Matches(s) : i <= j
            /\ key_signed' = [key_signed EXCEPT ![i] = TRUE]
            /\ sig_set' = sig_set \cup {s}
            /\ agg_pub_key' = Sum(i)
            /\ UNCHANGED result
       \/ /\ Matches(s) = {}
          /\ result' = IF s \in sig_set THEN result ELSE "none"
          /\ UNCHANGED <<key_signed, sig_set, agg_pub_key>>
    /\ UNCHANGED args

Conclude ==
    /\ result = "checking" /\ pos = Len(signatures)
    /\ result' = IF Cardinality(sig_set) = m THEN "some" ELSE "none"
    /\ UNCHANGED <<args, pos, key_signed, sig_set, agg_pub_key>>

Next == CheckSignature \/ Conclude

Spec == Init /\ [][Next]_vars
-----------------------------------------------------------------------------
Assignments == {f \in [1..m -> DOMAIN public_keys] :
                   /\ \A i, j \in 1..m : i # j => f[i] # f[j]
                   /\ \A i \in 1..m : public_keys[f[i]] = signatures[i].key}

\* Taking the first free key for each signature decides the question: the check
\* succeeds if and only if the m signatures are distinct and can be assigned m
\* different places of the key list, in whatever order they lie on the stack.
MultisigDecides ==
    result \in {"some", "none"} =>
        (result = "some" <=> Cardinality(ToSet(signatures)) = m /\ Assignments # {})

\* The aggregate that CheckMultiSigVerifyAggregatePubKey pushes is the sum of the
\* keys that signed, each as often as it signed.
AggregateIsSigners ==
    result = "some" =>
        \A k \in Keys : CopiesIn(k, agg_pub_key) = Cardinality({i \in 1..m : signatures[i].key = k})

\* "The multiple signature validation will not succeed ... if
\* Vec<RistrettoPublicKey> contains a duplicate public key".
NoDuplicateKeys == result = "some" => Cardinality(ToSet(public_keys)) = n
=============================================================================
