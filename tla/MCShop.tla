-------------------------------- MODULE MCShop --------------------------------
(* The checkout, the workspace, the palette and the shell share only the    *)
(* page on the screen, and are checked side by side: each moves while the   *)
(* others are as they were at first.                                        *)
EXTENDS Checkout, Workspace, Palette, Shell

CONSTANTS t1, t2, m1, la, lb, lc

MCCommands ==
    << [name |-> <<la, lc, lb>>, category |-> <<lc>>, path |-> "orders"],
       [name |-> <<la, lb, lc, lc>>, category |-> <<lc>>, path |-> "products"],
       [name |-> <<lb, la, lc>>, category |-> <<la, lb>>, path |-> "products"] >>

MCInit == Init /\ WorkspaceInit /\ PaletteInit /\ ShellInit

MCNext ==
    \/ /\ WorkspaceInit /\ PaletteInit /\ ShellInit
       /\ Next /\ UNCHANGED <<workVars, paletteVars, shellVars>>
    \/ /\ Init /\ PaletteInit /\ ShellInit
       /\ WorkspaceNext /\ UNCHANGED <<vars, paletteVars, shellVars>>
    \/ /\ Init /\ WorkspaceInit /\ ShellInit
       /\ PaletteNext /\ UNCHANGED <<vars, workVars, shellVars>>
    \/ /\ Init /\ WorkspaceInit /\ PaletteInit
       /\ ShellNext /\ UNCHANGED <<vars, workVars, paletteVars>>

MCSpec ==
    MCInit /\ [][MCNext]_<<vars, workVars, paletteVars, shellVars>>

\* The types of all four.
TypesOK == TypeOK /\ WorkspaceTypeOK /\ PaletteTypeOK /\ ShellTypeOK

=============================================================================
