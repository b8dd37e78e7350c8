--------------------------- MODULE ComputingServer ---------------------------
(***************************************************************************)
(* What the computing server may be built to run: main.cpp has one program *)
(* after the other commented out, and one of them is put back before a      *)
(* build.  A candle bot with its thread, the back-tester, or calls on the   *)
(* indicators, CCI with its tasks apart.  The programs share no state.      *)
(***************************************************************************)
EXTENDS TradingBot, BackTester, IndicatorCalls, CciTasks

CONSTANT Programs

AllPrograms == {"bot", "backtest", "calls", "cci"}
ASSUME ProgramsAssumption == Programs \subseteq AllPrograms

VARIABLE program

serverVars == <<program, botVars, testerVars, callVars, cciVars>>

\* The parts that are not in the build are anything, but always the same.
ServerInit ==
    /\ program \in Programs
    /\ BotInit /\ TesterInit /\ CallsInit /\ CciInit
    /\ program # "bot" => strategy = CHOOSE s \in Strategies : TRUE
    /\ program # "calls" => /\ kind = CHOOSE k \in Kinds : TRUE
                            /\ period = CHOOSE p \in Periods : TRUE
    /\ program # "cci" => /\ form = "signal"
                          /\ excess = CHOOSE n \in Excesses : TRUE
                          /\ longer = 0
                          /\ numThreads = CHOOSE n \in ThreadCounts : TRUE

ServerNext ==
    /\ UNCHANGED program
    /\ \/ program = "bot" /\ BotNext /\ UNCHANGED <<testerVars, callVars, cciVars>>
       \/ program = "backtest" /\ TesterNext /\ UNCHANGED <<botVars, callVars, cciVars>>
       \/ program = "calls" /\ CallsNext /\ UNCHANGED <<botVars, testerVars, cciVars>>
       \/ program = "cci" /\ CciNext /\ UNCHANGED <<botVars, testerVars, callVars>>

\* The fairness of the bot's thread, under its assumptions.
ServerSpec == ServerInit /\ [][ServerNext]_serverVars /\ WF_botVars(BotThread)
=============================================================================
