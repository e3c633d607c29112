---------------------------- MODULE MCPaillierSum ----------------------------
EXTENDS PaillierSum
\* Two of the pairs have no lambdaInverse and are left out by Init.
MCKeyPairs == {<<3, 5>>, <<5, 7>>, <<7, 11>>, <<3, 7>>, <<11, 5>>}
=============================================================================
