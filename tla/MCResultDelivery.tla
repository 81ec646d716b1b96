--------------------------- MODULE MCResultDelivery ---------------------------
EXTENDS ResultDelivery

\* Every job is of one connection; a job of another one cannot be named and its
\* receipt matches nothing, like that of a job here that is not named.
OneConnection == \A j, k \in Jobs : kind[j] = kind[k]
=============================================================================
