------------------------------ MODULE MCSession ------------------------------
(* Small instances of Session: memory and call stacks are told apart only as *)
(* "as loaded" and "changed".                                                *)
EXTENDS SessionConsole

CONSTANTS pristine, changed, boot, deeper

TwoMem == {pristine, changed}
TwoStacks == {boot, deeper}
OneStack == {boot}
OneMem == {pristine}
=============================================================================
