----------------------------- MODULE MCCommands -----------------------------
(* An instance of Commands for TLC: an owner and an editor, two            *)
(* propositions, and frames chosen so that what the code guards against    *)
(* happens.                                                                *)
EXTENDS Commands, TLC

CONSTANTS owner, ed, k1, k2, seed, paste, remove, reuse, delete

step(eff, p, u) == [eff |-> eff, prop |-> p, user |-> u]

MCRole == (owner :> "owner" @@ ed :> "editor")

MCMembers == {<<ed, 1>>, <<ed, 2>>}

Of(table) == [f \in Frames |-> table[f]]

(* seed:   the editor makes a proposition and fills it, in one transaction. *)
(* paste:  the editor edits twice, each in a transaction of its own.        *)
(* remove: the owner puts the editor out of 1 and edits it, in one          *)
(*         transaction and with no key.                                     *)
(* reuse:  the editor spends the key of the paste in proposition 2.         *)
(* delete: the owner deletes a proposition, under the key string the        *)
(*         editor's seed has.                                               *)
MCBy == Of(seed :> ed @@ paste :> ed @@ remove :> owner @@ reuse :> ed
         @@ delete :> owner)

MCKeys == Of(seed :> k1 @@ paste :> k2 @@ remove :> NoKey @@ reuse :> k2
           @@ delete :> k1)

MCSteps == Of(seed :> <<step("create", 0, ed), step("seed", 0, ed)>>
            @@ paste :> <<step("edit", 1, ed), step("edit", 1, ed)>>
            @@ remove :> <<step("remove", 1, ed), step("edit", 1, ed)>>
            @@ reuse :> <<step("edit", 2, ed)>>
            @@ delete :> <<step("delete", 3, owner)>>)

MCGrouped == Of(seed :> TRUE @@ paste :> FALSE @@ remove :> TRUE
              @@ reuse :> FALSE @@ delete :> FALSE)

CONSTANT MaxTrouble

(* Deliveries, crashes and key lives (two ticks) together: three           *)
(* deliveries alone, two with a crash or with their keys expiring.         *)
Budget == sends + crashes + (now + 1) \div 2 <= MaxTrouble

MCSymmetry == Permutations(Workers)
=============================================================================
