--------------------------- MODULE MCBloomFilter ---------------------------
(* Three paths; hash halves of an 8-bit int, positive and negative, large  *)
(* enough that k * h2 and the running sum wrap.                            *)
EXTENDS BloomFilter

MCElems == {"x", "y", "z"}
HashPairs == {<<5, 3>>, <<17, 60>>, <<-7, 2>>}
MCHashes == [MCElems -> HashPairs]
\* -ln(p) * 1000 for p = 0.5, 0.1 and 0.01, and for the out-of-range
\* p = 1 (an empty filter) and p = 2 (a negative size).
MCLnInv == [p \in {"0.5", "0.1", "0.01", "1", "2"} |->
              CASE p = "0.5" -> 693 [] p = "0.1" -> 2303 [] p = "0.01" -> 4605
                [] p = "1" -> 0 [] OTHER -> -693]
\* NumElem may be left negative (Initialize returns early), zero or set.
MCNumElems == {-1, 0, 1, 2, 3}
====
