------------------------------- MODULE Words -------------------------------
(***************************************************************************)
(* Four-valued words, the class quad_value_bit_vector and the functions on *)
(* it, as the branches of Simulator::updatePort and of doUnop and doBinop  *)
(* call them.  A word is a function from its bits, 0 the least, to Val.    *)
(* The loops of the library are kept where bits depend on each other (the  *)
(* carry, the borrow and its copy of the first operand, the partial        *)
(* products) and are maps over the bits where they do not.  Beside them,   *)
(* what the four-state code generated for the same cells computes of the   *)
(* binary words in the table and of their masks of unknown bits.           *)
(***************************************************************************)
EXTENDS Integers, FiniteSetsExt, QuadValue

CONSTANTS Width,        \* of the ports IN0 and IN1
          MaxShift      \* the largest amount get_shift_int accepts: 64 there

ASSUME WordsAssumption == Width \in Nat \ {0, 1} /\ MaxShift \in Nat

Bits(n)  == 0 .. n - 1
Word(n)  == [Bits(n) -> Val]
Size(a)  == Cardinality(DOMAIN a)

\* No result: an assertion fails, or a loop leaves the vector, and the program
\* ends.
Stopped == [i \in Bits(0) |-> X]

AllBinary(a)  == \A i \in DOMAIN a : IsBinary(a[i])
FromInt(n, v) == [i \in Bits(n) |-> (v \div 2 ^ i) % 2]
ToInt(a)      == MapThenSumSet(LAMBDA i : a[i] * 2 ^ i, DOMAIN a)
UnknownBv(n)  == [i \in Bits(n) |-> X]
Flag(p)       == FromInt(1, Bool(p))

BvEquals(a, b) == Size(a) = Size(b) /\ \A i \in DOMAIN a : QEquals(a[i], b[i])

-----------------------------------------------------------------------------
SumBit(s) == s % 2

Carry(a, b) ==
  LET c[i \in 0 .. Size(a)] == IF i = 0 THEN 0 ELSE (a[i-1] + b[i-1] + c[i-1]) \div 2
  IN  c

\* fault: only the unknown bits are unknown in the sum, not those they carry into
AddBitwise(a, b) ==
  LET za == [i \in DOMAIN a |-> a[i] % 2]
      zb == [i \in DOMAIN b |-> b[i] % 2]
  IN  [i \in DOMAIN a |-> IF a[i] = X \/ b[i] = X THEN X
                          ELSE SumBit(a[i] + b[i] + Carry(za, zb)[i])]

Add(a, b) ==
  IF AllBinary(a) /\ AllBinary(b)
  THEN [i \in DOMAIN a |-> SumBit(a[i] + b[i] + Carry(a, b)[i])]
  ELSE UnknownBv(Size(a))

\* fault: the borrow is taken from the next bit, set or not
BorrowNext(a, j) == IF j \in DOMAIN a THEN [a EXCEPT ![j] = 0] ELSE a

\* The bits from j on that are not 1, unknown ones too, become 1, up to the
\* first that is, which pays.
Borrow(a, j) ==
  LET Pays(k) == k >= j /\ a[k] = 1 /\ \A m \in j .. k - 1 : a[m] # 1
  IN  [k \in DOMAIN a |-> IF k < j \/ \E m \in j .. k - 1 : a[m] = 1 THEN a[k]
                          ELSE IF Pays(k) THEN 0 ELSE 1]

Sub(a, b) ==
  LET s[i \in 0 .. Size(a)] ==
        IF i = 0 THEN [copy |-> a, diff |-> FromInt(Size(a), 0), known |-> TRUE]
        ELSE LET t == s[i-1]
                 x == t.copy[i-1]
                 y == b[i-1]
             IN  IF x = 0 /\ y = 1
                 THEN [t EXCEPT !.copy = Borrow(t.copy, i), !.diff[i-1] = 1]
                 ELSE IF x = 1 /\ y = 0 THEN [t EXCEPT !.diff[i-1] = 1]
                 ELSE IF QEquals(x, y) THEN t
                 ELSE [t EXCEPT !.known = FALSE]
      last == s[Size(a)]
  IN  IF last.known THEN last.diff ELSE UnknownBv(Size(a))

Negate(a) == Sub(FromInt(Size(a), 0), a)

\* A bit of b that is unknown adds nothing.
Mul(a, b) ==
  LET n == Size(a)
      Shifted(i) == [j \in Bits(2 * n) |-> IF j - i \in DOMAIN a THEN a[j - i] ELSE 0]
      full[i \in 0 .. n] ==
        IF i = 0 THEN FromInt(2 * n, 0)
        ELSE IF b[i-1] = 1 THEN Add(full[i-1], Shifted(i - 1)) ELSE full[i-1]
  IN  [i \in DOMAIN a |-> full[n][i]]

-----------------------------------------------------------------------------
Greater(a, b) ==
  /\ AllBinary(a) /\ AllBinary(b)
  /\ \E i \in DOMAIN a : a[i] > b[i] /\ \A k \in DOMAIN a : k > i => a[k] = b[k]

Less(a, b) == AllBinary(a) /\ AllBinary(b) /\ a # b /\ ~Greater(a, b)

HighBit(a) == a[Size(a) - 1]

SignedGreater(a, b) ==
  /\ AllBinary(a) /\ AllBinary(b)
  /\ \/ HighBit(b) = 1 /\ HighBit(a) = 0
     \/ HighBit(a) = HighBit(b) /\ Greater(a, b)

AndR(a) == \A i \in DOMAIN a : a[i] = 1
OrR(a)  == \E i \in DOMAIN a : a[i] = 1
XorR(a) == Cardinality({i \in DOMAIN a : a[i] = 1}) % 2 = 1

-----------------------------------------------------------------------------
\* What get_shift_int and the tests before it make of a shift.
ByAmount(a, s, shifted) ==
  IF ~AllBinary(a) \/ ~AllBinary(s) THEN UnknownBv(Size(a))
  ELSE IF ToInt(s) > MaxShift THEN Stopped ELSE shifted

\* The loop that clears the high bits counts down an unsigned index: down to
\* 0 it never ends and leaves the vector.
LShr(a, s) ==
  LET k == ToInt(s)
  IN  ByAmount(a, s, IF k = Size(a) THEN Stopped
                     ELSE [i \in DOMAIN a |-> IF i + k \in DOMAIN a THEN a[i + k] ELSE 0])

AShr(a, s) ==
  LET k == ToInt(s)
  IN  ByAmount(a, s, [i \in DOMAIN a |-> IF i + k \in DOMAIN a THEN a[i + k] ELSE HighBit(a)])

Shl(a, s) ==
  LET k == ToInt(s)
  IN  ByAmount(a, s, [i \in DOMAIN a |-> IF i >= k THEN a[i - k] ELSE 0])

Concat(a, b) ==
  [i \in Bits(Size(a) + Size(b)) |-> IF i \in DOMAIN a THEN a[i] ELSE b[i - Size(a)]]

Slice(a, start, end) == [i \in Bits(end - start) |-> a[i + start]]

ZeroExtend(n, a) == [i \in Bits(n) |-> IF i \in DOMAIN a THEN a[i] ELSE 0]

-----------------------------------------------------------------------------
Comparison == {"EQ", "NEQ", "ULT", "UGT", "UGE", "ULE", "signed_gt", "signed_gte"}
Reduction  == {"ANDR", "ORR", "xorr"}
Arithmetic == {"ADD", "SUB", "MUL", "negate"}
Shift      == {"SHL", "ASHR", "LSHR"}
Bitwise    == {"AND", "OR", "XOR", "NOT"}
Wire       == {"SLICE", "ZEXT", "concat"}

\* Cells, in capitals, and functions of the library that no cell calls.
Operation == Comparison \cup Reduction \cup Arithmetic \cup Shift \cup Bitwise \cup Wire

\* Where a comparison or a reduction puts its flag.
Holds(t, a, b) ==
  CASE t = "EQ"         -> BvEquals(a, b)
    [] t = "NEQ"        -> ~BvEquals(a, b)
    [] t = "ULT"        -> Less(a, b)
    [] t = "UGT"        -> Greater(a, b)
    [] t = "UGE"        -> Greater(a, b) \/ BvEquals(a, b)
    [] t = "ULE"        -> Less(a, b) \/ BvEquals(a, b)
    [] t = "signed_gt"  -> SignedGreater(a, b)
    [] t = "signed_gte" -> SignedGreater(a, b) \/ BvEquals(a, b)
    [] t = "ANDR"       -> AndR(a)
    [] t = "ORR"        -> OrR(a)
    [] t = "xorr"       -> XorR(a)

Out(t, a, b) ==
  CASE t \in Comparison \cup Reduction -> Flag(Holds(t, a, b))
    [] t = "ADD"    -> Add(a, b)
    [] t = "SUB"    -> Sub(a, b)
    [] t = "MUL"    -> Mul(a, b)
    [] t = "negate" -> Negate(a)
    [] t = "SHL"    -> Shl(a, b)
    [] t = "ASHR"   -> AShr(a, b)
    [] t = "LSHR"   -> LShr(a, b)
    [] t = "AND"    -> [i \in DOMAIN a |-> QAnd(a[i], b[i])]
    [] t = "OR"     -> [i \in DOMAIN a |-> QOr(a[i], b[i])]
    [] t = "XOR"    -> [i \in DOMAIN a |-> QXor(a[i], b[i])]
    [] t = "NOT"    -> [i \in DOMAIN a |-> QNot(a[i])]
    [] t = "SLICE"  -> Slice(a, 1, Size(a))
    [] t = "ZEXT"   -> ZeroExtend(Size(a) + 1, a)
    [] t = "concat" -> Concat(a, b)

-----------------------------------------------------------------------------
(* The generated code.  Words are binary, masks sets of bits; a result is  *)
(* what a client finds in the low bits of its container, which is larger.  *)

Generated == (Operation \cap {"EQ", "NEQ", "ULT", "UGT", "UGE", "ULE", "ORR"})
               \cup (Arithmetic \ {"negate"}) \cup Shift \cup Bitwise \cup {"SLICE", "ZEXT"}

\* A shift to the right sets or clears as many bits as it is long, from the high end of
\* the word or from bit 0 up, and keeps the others.
CodeShr(a, s, sign) ==
  LET k    == ToInt(s)
      from == IF k <= Size(a) THEN Size(a) - k ELSE 0
  IN  [i \in DOMAIN a |-> IF i \in from .. from + k - 1 THEN sign
                          ELSE IF i + k \in DOMAIN a THEN a[i + k] ELSE 0]

CodeValue(t, a, b) ==
  CASE t = "ADD"  -> FromInt(Size(a), ToInt(a) + ToInt(b))
    [] t = "SUB"  -> FromInt(Size(a), ToInt(a) - ToInt(b))
    [] t = "MUL"  -> FromInt(Size(a), ToInt(a) * ToInt(b))
    [] t = "SHL"  -> FromInt(Size(a), ToInt(a) * 2 ^ ToInt(b))
    [] t = "ASHR" -> CodeShr(a, b, HighBit(a))
    [] t = "LSHR" -> CodeShr(a, b, 0)
    [] t = "EQ"   -> Flag(ToInt(a) = ToInt(b))
    [] t = "NEQ"  -> Flag(ToInt(a) # ToInt(b))
    [] t = "ULT"  -> Flag(ToInt(a) < ToInt(b))
    [] t = "UGT"  -> Flag(ToInt(a) > ToInt(b))
    [] t = "ULE"  -> Flag(ToInt(a) <= ToInt(b))
    [] t = "UGE"  -> Flag(ToInt(a) >= ToInt(b))
    [] t = "ORR"  -> Flag(ToInt(a) # 0)
    [] OTHER      -> Out(t, a, b)

\* One bit for a whole sum, product or shift, and none for LSHR (the statements after its
\* return are never reached).
CodeMask(t, xa, xb) ==
  CASE t \in {"AND", "OR", "XOR"} -> xa \cup xb
    [] t \in {"NOT", "ZEXT"}      -> xa
    [] t = "SLICE"                -> {i \in Bits(Width) : i + 1 \in xa}
    [] t = "ORR"                  -> IF xa # {} THEN {0} ELSE {}
    [] t = "LSHR"                 -> {}
    [] OTHER                      -> IF xa \cup xb # {} THEN {0} ELSE {}

\* The binary words that may be below the mask of a.
Resolutions(a) == {w \in [DOMAIN a -> {0, 1}] : \A i \in DOMAIN a : a[i] # X => w[i] = a[i]}
Unknown(a)     == {i \in DOMAIN a : a[i] = X}

-----------------------------------------------------------------------------
VARIABLES in0, in1,     \* what materializeInput returned
          tp,           \* the operation evaluated last, or "none"
          by,           \* "library" or "code"
          out           \* its result

vars == <<in0, in1, tp, by, out>>

Init ==
  /\ in0 \in Word(Width) /\ in1 \in Word(Width)
  /\ tp = "none" /\ by = "library" /\ out = Stopped

\* updatePort for a cell of type t.
Evaluate(t) ==
  /\ tp = "none"
  /\ tp' = t /\ by' = "library"
  /\ out' = Out(t, in0, in1)
  /\ UNCHANGED <<in0, in1>>

\* The instructions for a cell of type t, with a and b in the table.
Run(t, a, b) ==
  /\ tp = "none"
  /\ tp' = t /\ by' = "code"
  /\ LET w == CodeValue(t, a, b)
         x == CodeMask(t, Unknown(in0), Unknown(in1))
     IN  out' = [i \in DOMAIN w |-> IF i \in x THEN X ELSE w[i]]
  /\ UNCHANGED <<in0, in1>>

Next ==
  \/ \E t \in Operation : Evaluate(t)
  \/ \E t \in Generated : \E a \in Resolutions(in0), b \in Resolutions(in1) : Run(t, a, b)

Spec == Init /\ [][Next]_vars

-----------------------------------------------------------------------------
Computed(T) == tp \in T /\ out # Stopped
BinaryInputs == AllBinary(in0) /\ AllBinary(in1)

A == ToInt(in0)
B == ToInt(in1)
Signed(a) == ToInt(a) - HighBit(a) * 2 ^ Size(a)
BitSum    == MapThenSumSet(LAMBDA i : in0[i], DOMAIN in0)

ShiftIsNumeric ==
  CASE tp = "SHL"  -> ToInt(out) = (A * 2 ^ B) % 2 ^ Width
    [] tp = "ASHR" -> Signed(out) = Signed(in0) \div 2 ^ B
    [] tp = "LSHR" -> ToInt(out) = A \div 2 ^ B

\* On binary operands the loops over carries, borrows and partial products, and the C++
\* operators of generated code, compute sum, difference, product and negative modulo two to
\* the width; a shift that gives a result is a product or a quotient by a power of two, for
\* amounts beyond the width too; slices, extensions and concatenations are the numbers they
\* stand for; the bit by bit comparisons order the words as numbers, the signed ones in two's
\* complement; and reductions fold the bits.
BinaryWordsAreNumbers ==
  BinaryInputs =>
    /\ Computed(Arithmetic \cup Wire) =>
         ToInt(out) = CASE tp = "ADD"    -> (A + B) % 2 ^ Width
                        [] tp = "SUB"    -> (A - B) % 2 ^ Width
                        [] tp = "MUL"    -> (A * B) % 2 ^ Width
                        [] tp = "negate" -> (-A) % 2 ^ Width
                        [] tp = "SLICE"  -> A \div 2
                        [] tp = "ZEXT"   -> A
                        [] tp = "concat" -> A + B * 2 ^ Width
    /\ Computed(Shift) /\ B <= MaxShift => ShiftIsNumeric
    /\ Computed(Comparison \cup Reduction) =>
         (out[0] = 1 <=> CASE tp = "EQ"         -> A = B
                           [] tp = "NEQ"        -> A # B
                           [] tp = "ULT"        -> A < B
                           [] tp = "UGT"        -> A > B
                           [] tp = "UGE"        -> A >= B
                           [] tp = "ULE"        -> A <= B
                           [] tp = "signed_gt"  -> Signed(in0) > Signed(in1)
                           [] tp = "signed_gte" -> Signed(in0) >= Signed(in1)
                           [] tp = "ANDR"       -> A = 2 ^ Width - 1
                           [] tp = "ORR"        -> A > 0
                           [] tp = "xorr"       -> BitSum % 2 = 1)

\* "Compare shift ops" (test/op_tests.cpp:361-383) shifts 16-bit words by 0 .. 17, one more
\* than the width, in the interpreter and in compiled code, and requires (line 107) that they
\* give the same: so each gives a result, the number the shift stands for.
ShiftsAreNumeric ==
  tp \in Shift /\ BinaryInputs /\ B <= Width + 1 => out # Stopped /\ ShiftIsNumeric

\* Bits a cell gives although bits it reads are unknown are those it gives whatever the
\* unknown bits are: what folding, partial evaluation and the users of a four-state
\* simulation rely on.  Not so in the library for comparisons, reductions and MUL, which
\* take an unknown bit for one that is not set, and for SUB, whose borrow overwrites an
\* unknown bit of its first operand; nor in generated code for arithmetic and shifts, whose
\* masks have one bit or none.
KnownBitsAreRight ==
  LET Sound == Bitwise \cup Wire
                 \cup (IF by = "code" THEN Comparison \cup Reduction
                       ELSE Shift \cup {"ADD"} \cup (IF AllBinary(in0) THEN {"SUB"} ELSE {}))
  IN  Computed(Sound) =>
        \A a \in Resolutions(in0), b \in Resolutions(in1) :
          LET w == Out(tp, a, b)
          IN  w # Stopped => \A i \in DOMAIN out : out[i] # X => out[i] = w[i]
=============================================================================
