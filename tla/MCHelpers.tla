------------------------------ MODULE MCHelpers ------------------------------
(* A finite instance of Helpers for TLC.                                   *)
EXTENDS Helpers, TLC

CONSTANTS e1, e2, g1, g2, c1, c2, c3, c257, cSub, cMisnamed, cMistyped

\* The operations programs are made of: Client itself depends on Programs.
Op == INSTANCE EthClient WITH pc <- cpc, Programs <- {}

\* Around the limits of 20 and 100, and their halves and quotients.
MCPrices == {0, 1, 9, 13, 14, 20, 35, 45, 50, 51, 90, 99, 100, 101, 150}
MCStation == {0, 1, 13, 14, 66, 67, 100, 200}

\* Two goroutines that deploy and fund at the same time; or a single one, which
\* funds the ERC20 handler, too.
MCPrograms ==
    {g1 :> <<Op!FundErc721Handler, Op!RegisterResource>> @@
     g2 :> <<Op!DeployAndMintErc20, Op!Erc721Mint>>,
     g1 :> <<Op!DeployMintApproveErc20, Op!FundErc20Handler,
             Op!FundErc20Handler, Op!DeployAssetStore>> @@
     g2 :> << >>}

\* 2^4 does not fit the integers, 2^3 does.
MCDifferences == {-4, -2, 0, 1, 3}

\* c1 and c2 have the same key, c257 that of c1 and an id that equals its own in
\* 8 bits; c3's contract has another id; cMisnamed has an option with a
\* misspelt name, cMistyped one with a bad value.
MCConfigs ==
    {<<c1, c2>>, <<cSub, c1>>, <<c1, c257>>, <<c2, c3>>, <<c1, cMisnamed>>,
     <<cSub, cMistyped>>, << >>}
MCTypes == [c \in ConfiguredChains |-> IF c = cSub THEN "substrate" ELSE "ethereum"]
MCIds == (c1 :> 1) @@ (c2 :> 2) @@ (c257 :> 257) @@ (c3 :> 3) @@ (cSub :> 4)
         @@ (cMisnamed :> 5) @@ (cMistyped :> 5)
MCContractIds == [c \in ConfiguredChains |-> IF c = c3 THEN 1 ELSE MCIds[c] % 256]
MCKeys == [c \in ConfiguredChains |-> IF c = cSub THEN "5Grw" ELSE "0xff"]
MCStartBlocks == [c \in ConfiguredChains |-> IF c = c2 THEN 1 ELSE 0]
MCOpts ==
    LET plain == [bridge |-> "value", blockConfirmations |-> "empty"] IN
    [c \in ConfiguredChains |->
        CASE c = cSub -> [startBlock |-> "value", useExtendedCal |-> "text"]
          [] c = c2 -> plain @@ [startBlock |-> "value", egsSpeed |-> "text"]
          [] c = cMisnamed -> plain @@ [startblock |-> "value"]
          [] c = cMistyped -> plain @@ [gasLimit |-> "text"]
          [] OTHER -> plain]
=============================================================================
