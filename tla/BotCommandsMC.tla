---------------------------- MODULE BotCommandsMC ----------------------------
EXTENDS BotCommands, TLC

AllKinds == {"say", "moveTo", "followPlayer", "mineOre", "playVptActions", "equipItem"}

\* The commands are alike until they are given a kind.
Alike == Permutations(Commands)

=============================================================================
