-------------------------- MODULE MCAnagraficaImport --------------------------
(* Two folders of the archive: a person with one file, and a folder whose  *)
(* name says the same fiscal code once more; an operator knows another one.*)
EXTENDS AnagraficaImport, TLC

CONSTANTS f1, f2, x1, k1, k2, s1, s2, t1, t2, h1, everyone

TwoFolders == {f1, f2}
Names == [f \in TwoFolders |->
            IF f = f1 THEN [words |-> 2, last |-> "cf", key |-> k1]
                      ELSE [words |-> 1, last |-> "cf", key |-> k1]]
OneFile == {x1}
InFirst == [x \in OneFile |-> f1]
LooksLikeVisura == [x \in OneFile |-> {"visura", "contratto"}]
Picked == {"notifica"}
TwoKeys == {k1, k2}
TwoSubjects == {s1, s2}
TwoCopies == 1 .. 2
TwoImporters == {t1, t2}
OneHandler == {h1}
OneScope == {everyone}
FirstOnly == [s \in OneScope |-> {f1}]
Ranked == [f \in TwoFolders |-> IF f = f1 THEN 1 ELSE 2]

Alike == Permutations(TwoSubjects) \cup Permutations(TwoImporters)
=============================================================================
