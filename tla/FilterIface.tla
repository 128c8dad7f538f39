---------------------------- MODULE FilterIface ----------------------------
(***************************************************************************)
(* What a filter of the image generator promises (the Filter interface in  *)
(* src/imgGen/src/filter/filter.go): once initialized, elements are added  *)
(* to it, and TestElement answers FALSE only for an element that is not    *)
(* present; for one that is not, TRUE ("possibly present") is allowed too.  *)
(* RemoveElement takes no element and is not part of this promise.         *)
(***************************************************************************)
CONSTANTS
    Elems,   \* the elements that may be added or tested
    None     \* model value: no TestElement answered yet

VARIABLES
    ready,   \* Initialize has been called
    elems,   \* the elements added so far
    result   \* None, or the last TestElement: [elem, found]

vars == <<ready, elems, result>>

Init ==
    /\ ready = FALSE
    /\ elems = {}
    /\ result = None

\* Initialize(): creates the filter.
Initialize ==
    /\ ~ready
    /\ ready' = TRUE
    /\ UNCHANGED <<elems, result>>

\* AddElement(elem): adds elem to the filter.
AddElement(e) ==
    /\ ready
    /\ elems' = elems \cup {e}
    /\ UNCHANGED <<ready, result>>

\* TestElement(elem): FALSE if not present, TRUE if possibly present.
TestElement(e) ==
    /\ ready
    /\ \E found \in (IF e \in elems THEN {TRUE} ELSE BOOLEAN) :
          result' = [elem |-> e, found |-> found]
    /\ UNCHANGED <<ready, elems>>

Next ==
    \/ Initialize
    \/ \E e \in Elems : AddElement(e) \/ TestElement(e)

Spec == Init /\ [][Next]_vars

====
