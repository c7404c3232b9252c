---------------------------- MODULE MCRoutedClient ----------------------------
(* RoutedClient on a small instance; the commands are interchangeable.       *)
EXTENDS RoutedClient, TLC

CONSTANTS a, b, c

Clients == {a, b, c}
Symmetry == Permutations(Clients)
=============================================================================
