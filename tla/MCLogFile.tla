----------------------------- MODULE MCLogFile -----------------------------
(* A small instance of LogFile for TLC. *)
EXTENDS LogFile

\* Texts whose bytes may be taken for the length of a record.
MCNames == {<<0, 1>>}
MCTexts == {<<>>, <<0, 1>>}

\* Much narrower than crc32, and that of nothing is 0 as there.
Sum(p, factor) == FoldLeft(LAMBDA sum, c : (sum * factor + c + 1) % 46337, 0, p)
MCCrc(p) == <<Sum(p, 257), Sum(p, 41)>>

=============================================================================
