---- MODULE MCControl ----
EXTENDS Control

MCWeight == <<1, 1, 2>>
MCScore == (0 :> <<3, 1, 2>>) @@ (1 :> <<1, 4, 2>>)
====
