---- MODULE MCResolver ----
EXTENDS Resolver

CONSTANTS a, c

MCHosts == {a, c}
MCLists == {<<a, c>>}
====
