-------------------------- MODULE MCServerSession --------------------------
EXTENDS ServerSession

\* SERVER_CONCURRENCIES.
ServerCells == <<1, 2, 4>>
=============================================================================
