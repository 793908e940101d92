------------------------------ MODULE Datasets -------------------------------
(***************************************************************************)
(* training/datasets/_dataset.py: what a Dataset does with its examples,   *)
(* which is pure.  A text or a label is abstracted to a number, by which   *)
(* texts are sorted; 0 is the blank one.                                   *)
(***************************************************************************)
EXTENDS Budgets

(* max(1, int(len(examples) * train_ratio)), for a ratio num / den that is *)
(* exact in binary.                                                        *)
TrainSize(size, num, den) == LET n == (size * num) \div den IN IF n = 0 THEN 1 ELSE n

(* split; "shuffling" is sorting by text.                                  *)
Split(examples, num, den, shuffle) ==
    LET s == IF shuffle THEN StableSort(examples, LAMBDA a, b : a.text < b.text) ELSE examples
        n == TrainSize(Len(s), num, den)
    IN  [train |-> SubSeq(s, 1, IF n > Len(s) THEN Len(s) ELSE n),
         val |-> SubSeq(s, n + 1, Len(s))]

(* validate: where there is something to complain of.                      *)
Issues(examples) ==
    IF examples = <<>> THEN {"empty"}
    ELSE {<<"text", i>> : i \in {k \in DOMAIN examples : examples[k].text = 0}}
         \cup {<<"label", i>> : i \in {k \in DOMAIN examples : examples[k].label = 0}}
         \cup (IF Cardinality({examples[k].label : k \in DOMAIN examples}) = 1
               THEN {<<"one label", 0>>} ELSE {})

(* from_prodigy: an annotation with a label keeps it, whatever the answer; *)
(* of the others, accept becomes "1" and reject "0".  "none" is no label.  *)
ProdigyLabel(ann) ==
    LET label == IF ann.label # "none" THEN ann.label ELSE ann.answer
    IN  CASE label = "accept" -> "1" [] label = "reject" -> "0" [] OTHER -> label

FromProdigy(data) == [i \in DOMAIN data |-> [text |-> data[i].text, label |-> ProdigyLabel(data[i])]]
=============================================================================
