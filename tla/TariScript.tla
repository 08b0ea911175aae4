----------------------------- MODULE TariScript -----------------------------
(***************************************************************************)
(* The script interpreter (infrastructure/tari_script: script.rs, stack.rs).  *)
(* A script is executed opcode by opcode on a stack of typed items; IfThen,    *)
(* Else and EndIf switch execution on and off.                                *)
(*                                                                          *)
(* Integers are scaled: i64 is MinInt..MaxInt, u64 0..(2 * MaxInt + 1), u8     *)
(* 0..MaxU8.  Keys, commitments and scalars are their discrete logarithms,     *)
(* numbers modulo Order, so that sums and signatures are what they are on the  *)
(* curve; a signature is <<r, s>> with s = r + e * k for message e and key k.  *)
(***************************************************************************)
EXTENDS Integers, Sequences, SequencesExt

CONSTANTS
    Ops,            \* the opcodes that scripts are made of: [op, n]
    Inputs,         \* the stacks that scripts start with
    MaxLen,         \* bound on the length of a script
    MaxStackSize, MaxInt, MaxU8, Order,
    BlockHeight

MinInt == -MaxInt - 1
IsInt(n) == n \in MinInt..MaxInt

VARIABLES
    script,         \* the opcodes so far
    stack,
    ifs,            \* if_stack: [branch, else_expected]
    executing,
    status,         \* "running", "ok", or the error the script ended with
    input,          \* the stack it started with
    done            \* the script is complete

vars == <<script, stack, ifs, executing, status, input, done>>

Types == {"Number", "Hash", "Scalar", "Commitment", "PublicKey", "Signature"}
Item(t, v) == [type |-> t, value |-> v]
Number(n) == Item("Number", <<n>>)
IsNumber(i) == i.type = "Number"
Val(i) == i.value[1]

TypeOK ==
    /\ Len(stack) <= MaxStackSize
    /\ \A i \in ToSet(stack) : i.type \in Types /\ (IsNumber(i) => IsInt(Val(i)))
    /\ \A f \in ToSet(ifs) : f.branch \in {"NotExecuted", "ExecuteIf", "ExecuteElse"} /\ f.expected \in BOOLEAN

Init ==
    /\ script = <<>> /\ ifs = <<>> /\ executing = TRUE /\ status = "running" /\ done = FALSE
    /\ input \in Inputs /\ stack = input

-----------------------------------------------------------------------------
(***************************************************************************)
(* The stack.  An operation returns the new stack or an error; the error       *)
(* "panic" stands for an arithmetic overflow that is not checked.             *)
(***************************************************************************)
Ok(s) == [stack |-> s, err |-> "none"]
Err(e) == [stack |-> <<>>, err |-> e]

Push(s, i) == IF Len(s) >= MaxStackSize THEN Err("StackOverflow") ELSE Ok(Append(s, i))
PushBool(s, b) == Push(s, Number(IF b THEN 1 ELSE 0))
PushChecked(s, n) == IF IsInt(n) THEN Push(s, Number(n)) ELSE Err("ValueExceedsBounds")
Below(s, n) == SubSeq(s, 1, Len(s) - n)

\* The *Verify opcodes push nothing.
Answer(s, b, verify) == IF ~ verify THEN PushBool(s, b) ELSE IF b THEN Ok(s) ELSE Err("VerifyFailed")

\* pop_n_plus_one_contains: the top n items, then one more; counter counts the
\* items of each type in a u8.
Or(s, n, verify) ==
    LET items == SubSeq(s, Len(s) - n + 1, Len(s))
        item == s[Len(s) - n]
        Count(t) == Len(SelectSeq(Append(items, item), LAMBDA i : i.type = t))
    IN  IF Len(s) < n + 1 THEN Err("StackUnderflow")
        ELSE IF \E t \in Types : Count(t) > MaxU8 THEN Err("panic")
        ELSE IF \E i \in ToSet(items) : i.type # item.type THEN Err("InvalidInput")
        ELSE Answer(Below(s, n + 1), item \in ToSet(items), verify)

\* push_down(2).
RevRot(s) ==
    IF Len(s) < 3 THEN Err("StackUnderflow")
    ELSE Ok(SubSeq(s, 1, Len(s) - 3) \o <<Last(s), s[Len(s) - 2], s[Len(s) - 1]>>)

Mod(a) == a % Order

AddItems(a, b) ==
    CASE a.type \in {"Commitment", "PublicKey"} -> Item(a.type, <<Mod(Val(a) + Val(b))>>)
      [] a.type = "Signature" -> Item(a.type, <<Mod(a.value[1] + b.value[1]), Mod(a.value[2] + b.value[2])>>)

Add(s) ==
    LET a == Last(s)
        b == s[Len(s) - 1]
    IN  IF Len(s) < 2 THEN Err("StackUnderflow")
        ELSE IF a.type # b.type \/ a.type \in {"Hash", "Scalar"} THEN Err("IncompatibleTypes")
        ELSE IF IsNumber(a) THEN PushChecked(Below(s, 2), Val(a) + Val(b))
        ELSE Push(Below(s, 2), AddItems(a, b))

\* The second minus the top.
Sub(s) ==
    LET a == Last(s)
        b == s[Len(s) - 1]
    IN  IF Len(s) < 2 THEN Err("StackUnderflow")
        ELSE IF a.type # b.type \/ a.type \notin {"Number", "Commitment"} THEN Err("IncompatibleTypes")
        ELSE IF IsNumber(a) THEN PushChecked(Below(s, 2), Val(b) - Val(a))
        ELSE Push(Below(s, 2), Item(a.type, <<Mod(Val(b) - Val(a))>>))

Equal(s, verify) ==
    LET a == Last(s)
        b == s[Len(s) - 1]
    IN  IF Len(s) < 2 THEN Err("StackUnderflow")
        ELSE IF a.type # b.type \/ a.type = "Scalar" THEN Err("IncompatibleTypes")
        ELSE Answer(Below(s, 2), a = b, verify)

Verifies(sig, key, e) == sig[2] = Mod(sig[1] + e * key)

CheckSig(s, e, verify) ==
    LET key == Last(s)
        sig == s[Len(s) - 1]
    IN  IF Len(s) < 2 THEN Err("StackUnderflow")
        ELSE IF key.type # "PublicKey" \/ sig.type # "Signature" THEN Err("IncompatibleTypes")
        ELSE Answer(Below(s, 2), Verifies(sig.value, Val(key), e), verify)

\* A fixed function stands for the digest; one of its values is no scalar.
Digest(v) == IF v = 0 THEN Order ELSE Mod(2 * v)

Hash(s) ==
    IF s = <<>> THEN Err("StackUnderflow")
    ELSE IF Last(s).type \notin {"Commitment", "PublicKey", "Hash"} THEN Err("IncompatibleTypes")
    ELSE Push(Below(s, 1), Item("Hash", <<Digest(Val(Last(s)))>>))

ToRistrettoPoint(s) ==
    IF s = <<>> THEN Err("StackUnderflow")
    ELSE IF Last(s).type \notin {"Hash", "Scalar"} THEN Err("IncompatibleTypes")
    ELSE IF Val(Last(s)) >= Order THEN Err("InvalidData")
    ELSE Push(Below(s, 1), Item("PublicKey", <<Val(Last(s))>>))

\* pop_into_number: the number on top, of a type that starts at lowest.
PopIntoNumber(s, lowest) ==
    IF s = <<>> THEN Err("StackUnderflow")
    ELSE IF ~ IsNumber(Last(s)) THEN Err("InvalidInput")
    ELSE IF Val(Last(s)) < lowest THEN Err("ValueExceedsBounds")
    ELSE Ok(Below(s, 1))

CheckHeightVerify(s, h) == IF BlockHeight >= h THEN Ok(s) ELSE Err("VerifyFailed")

\* Both heights must fit an i64; their difference then does.
CheckHeight(s, h) ==
    IF h > MaxInt \/ BlockHeight > MaxInt THEN Err("ValueExceedsBounds") ELSE Push(s, Number(BlockHeight - h))

CompareHeightVerify(s) ==
    LET r == PopIntoNumber(s, 0) IN
    IF r.err # "none" THEN r ELSE CheckHeightVerify(r.stack, Val(Last(s)))

\* The subtraction is not checked.
CompareHeight(s) ==
    LET r == PopIntoNumber(s, MinInt) IN
    IF r.err # "none" THEN r
    ELSE IF BlockHeight > MaxInt THEN Err("ValueExceedsBounds")
    ELSE IF ~ IsInt(BlockHeight - Val(Last(s))) THEN Err("panic")
    ELSE Push(r.stack, Number(BlockHeight - Val(Last(s))))

CmpToZero(s, op) ==
    LET r == PopIntoNumber(s, MinInt)
        n == Val(Last(s))
    IN
    IF r.err # "none" THEN r
    ELSE PushBool(r.stack, \/ op \in {"GeZero", "GtZero"} /\ n > 0
                           \/ op \in {"GeZero", "LeZero"} /\ n = 0
                           \/ op \in {"LeZero", "LtZero"} /\ n < 0)

\* execute_opcode for the opcodes other than IfThen, Else and EndIf.
Execute(o, s) ==
    CASE o.op = "Nop" -> Ok(s)
      [] o.op = "PushInt" -> Push(s, Number(o.n))
      [] o.op = "PushHash" -> Push(s, Item("Hash", <<o.n>>))
      [] o.op = "PushPubKey" -> Push(s, Item("PublicKey", <<o.n>>))
      [] o.op = "Drop" -> IF s = <<>> THEN Err("StackUnderflow") ELSE Ok(Below(s, 1))
      [] o.op = "Dup" -> IF s = <<>> THEN Err("StackUnderflow") ELSE Push(s, Last(s))
      [] o.op = "RevRot" -> RevRot(s)
      [] o.op \in {"GeZero", "GtZero", "LeZero", "LtZero"} -> CmpToZero(s, o.op)
      [] o.op = "Add" -> Add(s)
      [] o.op = "Sub" -> Sub(s)
      [] o.op \in {"Equal", "EqualVerify"} -> Equal(s, o.op = "EqualVerify")
      [] o.op \in {"Or", "OrVerify"} -> Or(s, o.n, o.op = "OrVerify")
      [] o.op = "Hash" -> Hash(s)
      [] o.op \in {"CheckSig", "CheckSigVerify"} -> CheckSig(s, o.n, o.op = "CheckSigVerify")
      [] o.op = "ToRistrettoPoint" -> ToRistrettoPoint(s)
      [] o.op = "CheckHeightVerify" -> CheckHeightVerify(s, o.n)
      [] o.op = "CheckHeight" -> CheckHeight(s, o.n)
      [] o.op = "CompareHeightVerify" -> CompareHeightVerify(s)
      [] o.op = "CompareHeight" -> CompareHeight(s)
      [] o.op = "Return" -> Err("Return")

-----------------------------------------------------------------------------
(***************************************************************************)
(* The interpreter.                                                         *)
(***************************************************************************)
Fail(e) == status' = e /\ UNCHANGED <<stack, ifs, executing>>
Open(branch) == ifs' = Append(ifs, [branch |-> branch, expected |-> TRUE])

IfThen ==
    IF ~ executing THEN Open("NotExecuted") /\ UNCHANGED <<stack, executing, status>>
    ELSE IF stack = <<>> THEN Fail("StackUnderflow")
    ELSE IF Last(stack) \notin {Number(0), Number(1)} THEN Fail("InvalidInput")
    ELSE /\ stack' = Front(stack)
         /\ executing' = (Last(stack) = Number(1))
         /\ Open(IF Last(stack) = Number(1) THEN "ExecuteIf" ELSE "ExecuteElse")
         /\ UNCHANGED status

\* Mutant: the other branch of a skipped block is executed.
ElseTurnsOn ==
    IF ifs = <<>> \/ ~ Last(ifs).expected THEN Fail("InvalidOpcode")
    ELSE /\ executing' = (Last(ifs).branch # "ExecuteIf")
         /\ ifs' = [ifs EXCEPT ![Len(ifs)].expected = FALSE]
         /\ UNCHANGED <<stack, status>>

Else ==
    IF ifs = <<>> \/ ~ Last(ifs).expected THEN Fail("InvalidOpcode")
    ELSE /\ executing' = (Last(ifs).branch = "ExecuteElse")
         /\ ifs' = [ifs EXCEPT ![Len(ifs)].expected = FALSE]
         /\ UNCHANGED <<stack, status>>

EndIf ==
    IF ifs = <<>> THEN Fail("InvalidOpcode")
    ELSE IF Last(ifs).expected THEN Fail("MissingOpcode")
    ELSE /\ executing' = (Last(ifs).branch # "NotExecuted")
         /\ ifs' = Front(ifs)
         /\ UNCHANGED <<stack, status>>

\* One turn of execute_with_context's loop.  What follows an error is not executed.
Step(o) ==
    /\ ~ done /\ Len(script) < MaxLen
    /\ script' = Append(script, o)
    /\ IF status # "running" THEN UNCHANGED <<stack, ifs, executing, status>>
       ELSE CASE o.op = "IfThen" -> IfThen
              [] o.op = "Else" -> Else
              [] o.op = "EndIf" -> EndIf
              [] OTHER -> IF ~ executing THEN UNCHANGED <<stack, ifs, executing, status>>
                          ELSE LET r == Execute(o, stack) IN
                               IF r.err # "none" THEN Fail(r.err)
                               ELSE stack' = r.stack /\ UNCHANGED <<ifs, executing, status>>
    /\ UNCHANGED <<input, done>>

\* The script has ended.
Finish ==
    /\ ~ done /\ done' = TRUE
    /\ status' = IF status # "running" THEN status
                 ELSE IF ifs # <<>> THEN "MissingOpcode"
                 ELSE IF Len(stack) # 1 THEN "NonUnitLengthStack" ELSE "ok"
    /\ UNCHANGED <<script, stack, ifs, executing, input>>

Next == Finish \/ \E o \in Ops : Step(o)

Spec == Init /\ [][Next]_vars
-----------------------------------------------------------------------------
(***************************************************************************)
(* What a script means as nested blocks: between i and j it is a sequence of   *)
(* opcodes and of IfThen ... Else ... EndIf.                                 *)
(***************************************************************************)
IsPlain(o) == o.op \notin {"IfThen", "Else", "EndIf"}

RECURSIVE IsBlock(_, _), Meaning(_, _, _)

Splits(i, j) ==
    {p \in ((i + 1)..j) \X ((i + 1)..j) :
        /\ p[1] < p[2] /\ script[p[1]].op = "Else" /\ script[p[2]].op = "EndIf"
        /\ IsBlock(i + 1, p[1] - 1) /\ IsBlock(p[1] + 1, p[2] - 1)}

IsBlock(i, j) ==
    \/ i > j
    \/ IsPlain(script[i]) /\ IsBlock(i + 1, j)
    \/ script[i].op = "IfThen" /\ \E p \in Splits(i, j) : IsBlock(p[2] + 1, j)

Meaning(i, j, s) ==
    IF i > j THEN Ok(s)
    ELSE IF IsPlain(script[i])
    THEN LET r == Execute(script[i], s) IN IF r.err # "none" THEN r ELSE Meaning(i + 1, j, r.stack)
    ELSE IF s = <<>> \/ Last(s) \notin {Number(0), Number(1)} THEN Err("InvalidInput")
    ELSE LET p == CHOOSE q \in Splits(i, j) : IsBlock(q[2] + 1, j)
             r == IF Last(s) = Number(1) THEN Meaning(i + 1, p[1] - 1, Front(s))
                                         ELSE Meaning(p[1] + 1, p[2] - 1, Front(s))
         IN  IF r.err # "none" THEN r ELSE Meaning(p[2] + 1, j, r.stack)

\* The flags of if_stack, switched opcode by opcode, execute exactly the nested
\* blocks: a script succeeds if and only if it is well nested and the branches
\* its predicates choose leave one item, and that item is its result.
AgreesWithBlocks ==
    done => LET n == Len(script)
                r == Meaning(1, n, input)
            IN  IF IsBlock(1, n) /\ r.err = "none" /\ Len(r.stack) = 1
                THEN status = "ok" /\ stack = r.stack
                ELSE status # "ok"

\* A *Verify opcode goes on with exactly the stacks for which the plain opcode
\* pushes a one, and leaves what is below it; comparing with the height and
\* testing for >= 0 are the same for heights that are no negative number.
VerifyAgrees ==
    \A o \in Ops :
        LET Agree(plain, verify) ==
                /\ (plain.err = "none" /\ Last(plain.stack) = Number(1)) =>
                       (verify.err = "none" /\ verify.stack = Front(plain.stack))
                /\ (plain.err = "none" /\ Last(plain.stack) = Number(0)) => verify.err = "VerifyFailed"
                /\ plain.err # "none" => verify.err # "none"
            Then(r, op) == IF r.err # "none" THEN r ELSE Execute([op |-> op, n |-> 0], r.stack)
            isHeight == stack # <<>> /\ IsNumber(Last(stack)) /\ Val(Last(stack)) >= 0
        IN  /\ o.op = "Equal" => Agree(Execute(o, stack), Execute([o EXCEPT !.op = "EqualVerify"], stack))
            /\ o.op = "Or" => Agree(Execute(o, stack), Execute([o EXCEPT !.op = "OrVerify"], stack))
            /\ o.op = "CheckSig" => Agree(Execute(o, stack), Execute([o EXCEPT !.op = "CheckSigVerify"], stack))
            /\ o.op = "CompareHeightVerify" /\ isHeight =>
                   Agree(Then(CompareHeight(stack), "GeZero"), Execute(o, stack))

\* No step of a script overflows without a check: the count of pop_n_plus_one_-
\* contains fits a u8 because the stack is no larger.
NoPanic == status # "panic"

\* "A 0 is also pushed if the values cannot be compared".
EqualOfAnyTypes == done /\ script = <<[op |-> "Equal", n |-> 0]>> /\ Len(input) = 2 => status = "ok"

\* CompareHeight "pushes the value of (height - the current height)".
CompareHeightPushesDifference ==
    done /\ script = <<[op |-> "CompareHeight", n |-> 0]>> /\ Len(input) = 1 /\ IsNumber(input[1]) /\ status = "ok"
        => Val(stack[1]) = Val(input[1]) - BlockHeight
=============================================================================
