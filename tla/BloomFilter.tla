---------------------------- MODULE BloomFilter ----------------------------
(***************************************************************************)
(* The Bloom filter of the image generator (BloomFilter in                 *)
(* src/imgGen/src/filter/bloom.go).  Initialize sizes the filter from the  *)
(* expected number of elements n and the false-positive probability p;     *)
(* AddElement and TestElement derive k bit indices from the two 64-bit     *)
(* halves h1, h2 of an element's hash by double hashing:                   *)
(*     intHash += k * h2;  bit = intHash % m       (k times)               *)
(* in int64 arithmetic, which wraps, and with Go's %, whose result has the *)
(* sign of the dividend.  The file does not compile as it stands (setBits  *)
(* ORs an index into a slice, TestElement has no parameter); the model     *)
(* takes the evident intent: setBits sets BitSet[bit], TestElement(elem)   *)
(* repeats AddElement's computation and checks the bits.                   *)
(*                                                                         *)
(* int64 is modelled with width IntWidth.  The float formulas of           *)
(* calcFilterSize and calcNumHashes are evaluated in fixed point with      *)
(* thousandths: LnInv[p] is -ln(p), Ln2 is ln 2 and Ln2Sq is (ln 2)^2, all *)
(* times 1000.                                                             *)
(***************************************************************************)
EXTENDS Integers, FiniteSets

CONSTANTS
    Elems,      \* the elements (file paths) that may be added or tested
    Hashes,     \* the hash functions: [Elems -> <<h1, h2>>] for each choice
    NumElems,   \* the values b.NumElem may be set to before Initialize
    Probs,      \* the values b.FPProb may be set to
    LnInv,      \* [Probs -> -ln(p) * 1000]
    Ln2,        \* ln 2 * 1000
    Ln2Sq,      \* (ln 2)^2 * 1000
    IntWidth,   \* bits of the modelled int64
    None        \* model value: no TestElement yet

\* Two's complement wrap-around of an int of IntWidth bits.
Wrap(x) == LET h == 2^(IntWidth - 1) IN ((x + h) % (2 * h)) - h

\* Go's truncated division and remainder.
GoDiv(a, b) == IF (a >= 0) = (b > 0) THEN (IF a >= 0 THEN a \div b ELSE (-a) \div (-b))
               ELSE -((IF a >= 0 THEN a ELSE -a) \div (IF b > 0 THEN b ELSE -b))
GoMod(a, b) == a - b * GoDiv(a, b)

VARIABLES
    hash,        \* HASH: the hash function in use
    numElem,     \* b.NumElem
    fpProb,      \* b.FPProb
    filterSize,  \* b.FilterSize (m)
    numHashes,   \* b.NumHashes (k)
    bitSet,      \* the indices whose bit of b.BitSet is set
    added,       \* the elements AddElement was called with
    tested,      \* None, or the last TestElement: its element and result
    status       \* "new", "ready" after Initialize, or "panic"

vars == <<hash, numElem, fpProb, filterSize, numHashes, bitSet, added, tested, status>>

\* calcFilterSize: ceil((n * log(p)) / log(1 / 2^log(2))).
CalcFilterSize(n, p) == (n * LnInv[p] + Ln2Sq - 1) \div Ln2Sq

\* calcNumHashes: round(float64(m / n) * log(2)), m / n an int64 division,
\* which panics where n = 0 (integer divide by zero).
CalcNumHashes(m, n) == (GoDiv(m, n) * Ln2 + 500) \div 1000

\* intHash % m; a remainder by m = 0 panics, and -1 stands for it.
Bit(x) == IF filterSize = 0 THEN -1 ELSE GoMod(x, filterSize)

\* hashElement(elem): HASH(elem), the two 64-bit halves h1 and h2.
HashElement(e) == hash[e]

\* The indices the loop of AddElement computes for e, in order:
\* intHash = h1 + i * (k * h2), each step wrapped, modulo m.
AddIndices(e) ==
    LET h1 == HashElement(e)[1]
        h2 == HashElement(e)[2]
    IN  [i \in 1..numHashes |-> Bit(Wrap(h1 + i * Wrap(numHashes * h2)))]

\* Mutant: TestElement's loop runs one step further than AddElement's.
TestIndicesMutant(e) ==
    LET h1 == HashElement(e)[1]
        h2 == HashElement(e)[2]
    IN  [i \in 1..numHashes + 1 |-> Bit(Wrap(h1 + i * Wrap(numHashes * h2)))]

\* TestElement's own copy of the loop.
TestIndices(e) ==
    LET h1 == HashElement(e)[1]
        h2 == HashElement(e)[2]
    IN  [i \in 1..numHashes |-> Bit(Wrap(h1 + i * Wrap(numHashes * h2)))]

Range(f) == {f[i] : i \in DOMAIN f}

\* An index outside 0..m-1 is an index out of range: the program panics.
InRange(idx) == \A i \in DOMAIN idx : 0 <= idx[i] /\ idx[i] < filterSize

Init ==
    /\ hash \in Hashes
    /\ numElem \in NumElems
    /\ fpProb \in Probs
    /\ filterSize = 0
    /\ numHashes = 0
    /\ bitSet = {}
    /\ added = {}
    /\ tested = None
    /\ status = "new"

\* Initialize: a negative NumElem returns at once; otherwise the size, the
\* bit array (make panics on a negative size, as p > 1 gives) and the
\* number of hashes.
Initialize ==
    /\ status = "new"
    /\ IF numElem < 0
       THEN /\ status' = "ready"
            /\ UNCHANGED <<filterSize, numHashes>>
       ELSE LET m == CalcFilterSize(numElem, fpProb)
            IN  /\ filterSize' = m
                /\ IF m < 0 \/ numElem = 0
                   THEN status' = "panic" /\ UNCHANGED numHashes
                   ELSE status' = "ready" /\ numHashes' = CalcNumHashes(m, numElem)
    /\ UNCHANGED <<hash, numElem, fpProb, bitSet, added, tested>>

\* AddElement(elem): sets the k bits of elem.
AddElement(e) ==
    /\ status = "ready"
    /\ IF InRange(AddIndices(e))
       THEN /\ bitSet' = bitSet \cup Range(AddIndices(e))
            /\ added' = added \cup {e}
            /\ UNCHANGED status
       ELSE status' = "panic" /\ UNCHANGED <<bitSet, added>>
    /\ UNCHANGED <<hash, numElem, fpProb, filterSize, numHashes, tested>>

\* TestElement(elem): TRUE when every one of its k bits is set.
TestElement(e) ==
    /\ status = "ready"
    /\ IF InRange(TestIndices(e))
       THEN /\ tested' = [elem |-> e, found |-> Range(TestIndices(e)) \subseteq bitSet]
            /\ UNCHANGED status
       ELSE status' = "panic" /\ UNCHANGED tested
    /\ UNCHANGED <<hash, numElem, fpProb, filterSize, numHashes, bitSet, added>>

\* RemoveElement(): a no-op for a Bloom filter.
RemoveElement == UNCHANGED vars

Next ==
    \/ Initialize
    \/ RemoveElement
    \/ \E e \in Elems : AddElement(e) \/ TestElement(e)

Spec == Init /\ [][Next]_vars

-----------------------------------------------------------------------------

\* BloomFilter implements the Filter interface: every Initialize,
\* AddElement and TestElement is a step of FilterIface, so TestElement never
\* answers "not present" for an element added before, however the int64
\* hashes wrap.  It rests on the two copies of the index loop, in
\* AddElement and TestElement, agreeing.  A panic changes no abstract state.
Filter == INSTANCE FilterIface WITH
              ready <- status # "new",
              elems <- added,
              result <- tested
ImplementsFilter == Filter!Spec

\* Initialize, AddElement and TestElement never panic (a division by zero or
\* a bit index outside the bit array) on the inputs the filter is given.
NoPanic == status # "panic"

====
