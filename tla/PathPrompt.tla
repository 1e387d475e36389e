----------------------------- MODULE PathPrompt -----------------------------
(* The path prompt of a file chooser as it is typed in: the input of preload.cjs, the directory
   main.cjs lists for it (fileChooserCompletion), and what file-chooser.cjs makes of the list. A name
   is a sequence of letters; one directory is typed in, and what is below it is empty. Hidden names
   and the accept attribute only make the list shorter and are left out. *)
EXTENDS Integers, Sequences, FiniteSets, SequencesExt

CONSTANTS Listings,    \* the directories: sets of entries, a name and whether it is a directory
          Lower,       \* the lower case of each letter
          Limit,       \* the entries a list offers, 50
          TypeLimit    \* the letters typed, and the tabs
ASSUME PathAssumption == Limit \in Nat \ {0} /\ TypeLimit \in Nat

VARIABLES listing,    \* what is in the directory
          typed,      \* input.value
          completed,  \* what Tab would make of it, as last heard
          toList,     \* values on their way to main
          listed,     \* answers on their way back: the value, and its completion
          tabbed,     \* history: the last Tab took away what was typed
          presses
pathVars == <<listing, typed, completed, toList, listed, tabbed, presses>>

Slash == "/"
Fold(name) == [i \in DOMAIN name |-> IF name[i] = Slash THEN Slash ELSE Lower[name[i]]]

\* completionScope: below a directory of the list nothing is listed.
Entries(value) == IF \E i \in DOMAIN value : value[i] = Slash THEN {}
                  ELSE {e \in listing : IsPrefix(Fold(value), Fold(e.name))}

RankOf(c) == CHOOSE n \in 1..Cardinality(DOMAIN Lower) : SetToSeq(DOMAIN Lower)[n] = c
Before(a, b) == \/ a.dir /\ ~b.dir
                \/ a.dir = b.dir /\ \/ IsStrictPrefix(a.name, b.name)
                                    \/ \E i \in DOMAIN a.name \intersect DOMAIN b.name :
                                         /\ SubSeq(a.name, 1, i - 1) = SubSeq(b.name, 1, i - 1)
                                         /\ RankOf(a.name[i]) < RankOf(b.name[i])
\* completionEntries: directories first, and only so many.
CompletionEntries(value) == {e \in Entries(value) :
                               Cardinality({d \in Entries(value) : Before(d, e)}) < Limit}

CommonPrefix(names) == LongestCommonPrefix(names)
\* completedInput: what all the offered names share, unless that is less than what is there.
CompletedInput(value) ==
  LET offered == CompletionEntries(value)
      shared == IF offered = {} THEN <<>> ELSE CommonPrefix({e.name : e \in offered})
  IN IF shared = <<>> \/ Len(shared) < Len(value) THEN value
     ELSE IF \E e \in offered : offered = {e} /\ e.dir THEN Append(shared, Slash) ELSE shared

PathInit == /\ listing \in Listings /\ typed = <<>> /\ completed = <<>> /\ toList = <<<<>>>>
            /\ listed = <<>> /\ tabbed = FALSE /\ presses = TypeLimit

RequestsCompletion == toList' = Append(toList, typed')
Types(c) == /\ presses > 0 /\ presses' = presses - 1 /\ typed' = Append(typed, c) /\ RequestsCompletion
            /\ tabbed' = FALSE /\ UNCHANGED <<listing, completed, listed>>
PressesTab == /\ presses > 0 /\ presses' = presses - 1
              /\ typed' = IF completed # <<>> THEN completed ELSE typed
              /\ tabbed' = ~IsPrefix(Fold(typed), Fold(typed')) /\ RequestsCompletion
              /\ UNCHANGED <<listing, completed, listed>>
FileChooserCompletion ==
  /\ toList # <<>> /\ toList' = Tail(toList)
  /\ listed' = Append(listed, [value |-> Head(toList), completed |-> CompletedInput(Head(toList))])
  /\ UNCHANGED <<listing, typed, completed, tabbed, presses>>
\* An answer to another value than the one in the input is not taken.
RenderFileChooserCompletion ==
  /\ listed # <<>> /\ listed' = Tail(listed)
  /\ completed' = IF Head(listed).value = typed THEN Head(listed).completed ELSE completed
  /\ UNCHANGED <<listing, typed, toList, tabbed, presses>>

PathNext == (\E c \in DOMAIN Lower : Types(c)) \/ PressesTab \/ FileChooserCompletion
            \/ RenderFileChooserCompletion
PathSpec == PathInit /\ [][PathNext]_pathVars

-----------------------------------------------------------------------------
(* Properties. *)

PathTypeOK == /\ listing \in Listings /\ tabbed \in BOOLEAN /\ presses \in 0..TypeLimit
              /\ {typed, completed} \subseteq Seq(DOMAIN Lower \union {Slash})

\* "It never guesses wrong, it just stops where the choice is genuinely still open" (file-chooser.cjs):
\* once the answers are in, what Tab would make of the input keeps what is typed and every entry that
\* begins with it.
NeverGuessesWrong ==
  toList = <<>> /\ listed = <<>> =>
    /\ IsPrefix(Fold(typed), Fold(completed))
    /\ \A e \in Entries(typed) : IsPrefix(Fold(completed), Append(Fold(e.name), Slash))

\* The same, for a Tab pressed at any time.
TabKeepsWhatIsTyped == ~tabbed
=============================================================================
