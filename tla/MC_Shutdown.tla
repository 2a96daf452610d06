----------------------------- MODULE MC_Shutdown -----------------------------
EXTENDS Shutdown

\* main.cpp declares okx_conn before bybit_conn; destructors run in reverse.
MC_DestroyOrder == <<"bybit", "okx">>

=============================================================================
