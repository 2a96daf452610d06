------------------------------ MODULE MC_Config ------------------------------
EXTENDS Config

\* The five default symbols, each abstracted to one letter.
MC_Defaults == <<<<"E">>, <<"X">>, <<"S">>, <<"T">>, <<"D">>>>

=============================================================================
