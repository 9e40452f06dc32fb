-------------------------- MODULE FarmerRegistryMC --------------------------
(* The instances of the parts of the farmer extension for TLC.              *)
EXTENDS FarmerRegistry, BootMigrationMC, TLC

\* In half hectares, the smaller unit's worth.
HalfHectares == "HECTARE" :> 2 @@ "ACRE" :> 1
LandOf(s, z, u, k) == [status |-> s, size |-> z, unit |-> u, kind |-> k]
Recorded ==
    {LandOf("ACTIVE", 1, "HECTARE", "OWNER"), LandOf("ACTIVE", 2, "ACRE", "TENANT"),
     LandOf("ACTIVE", 1, "ACRE", "CROP_SHARE"), LandOf("ACTIVE", NULL, "HECTARE", "TENANT"),
     LandOf("INACTIVE", 1, "HECTARE", "OWNER")}
SquareKm == "HECTARE" :> 1 @@ "SQUARE_KM" :> 100

\* From a new year before 1900, from the end of a leap year of Pagumen and of
\* February 2000, and across 2100, which is no leap year.
D(y, m, d) == <<y, m, d>>
NewYears ==
    {<<D(1899, 9, 11), D(1892, 1, 1)>>, <<D(1903, 9, 10), D(1895, 13, 5)>>,
     <<D(1999, 9, 12), D(1992, 1, 1)>>, <<D(2099, 9, 12), D(2092, 1, 1)>>}

\* A region with two zones, one of which has a kebele; a pack may gain people
\* at its end or in between.
Snapshot == "region" :> NULL @@ "zone" :> "region" @@ "other" :> "region"
                @@ "kebele" :> "zone"
Housed == 2 :> 3 @@ 5 :> NULL @@ 6 :> 1

\* Two names, of two codes.
OneList == <<"CROP_COMMODITY">>
Normalised == "Wheat (T. durum)" :> "WHEAT" @@ "Teff" :> "TEFF"

=============================================================================
