---------------------------- MODULE EcommerceApp ----------------------------
(***************************************************************************)
(* apps/ecommerce: the Prisma calls of each route handler.                 *)
(***************************************************************************)
EXTENDS OrmCalls

CategoriesSlugRatings ==
    <<With(FindUnique("Category", "slug"), {"products", "products.reviews"})>>

CategoriesSlug == <<With(FindUnique("Category", "slug"), {"products"})>>

CategoriesOverview == <<Page("Category", {}), ForEachRow(Page("Product", {"categoryId"}))>>

Categories == <<Page("Category", {})>>

CustomersIdOrders == <<Page("Order", {"customerId"})>>

CustomersId ==
    <<With(FindUnique("Customer", "id"), {"orders", "orders.items", "reviews"})>>

CustomersIdSummary ==
    <<OrNotFound(FindUnique("Customer", "id")), FindUnique("Customer", "id"),
      Aggregate("Order", {"customerId"})>>

OrdersIdInvoice ==
    <<OrNotFound(With(FindUnique("Order", "id"), {"customer", "items"})),
      ForEachRow(FindUnique("Product", "id"))>>

OrdersId ==
    <<With(FindUnique("Order", "id"), {"customer", "items", "items.product"})>>

OrdersRecent == <<Page("Order", {}), ForEachRow(FindUnique("Customer", "id"))>>

(* The filter is a const object, given as the shorthand property `where`.  *)
Orders == <<Shorthand(CountRows("Order", {"status"})), Shorthand(Page("Order", {"status"}))>>

LoadProduct == OrNotFound(FindUnique("Product", "id"))

ProductsIdRelated == <<LoadProduct, LoadProduct, Page("Product", {"categoryId", "id"})>>

ProductsId ==
    <<With(FindUnique("Product", "id"), {"category", "reviews", "reviews.customer"}),
      Aggregate("Review", {"productId"})>>

ProductsExport == <<With(FindMany("Product", {}), {"category"})>>

ProductsLowStock == <<With(Page("Product", {"stock"}), {"category"})>>

Products == <<With(Page("Product", {"categoryId"}), {"category"})>>

ProductsSearch == <<With(Page("Product", {"name"}), {"category"})>>

ProductsSitemap == <<FindMany("Product", {})>>

Reviews == <<With(Page("Review", {"rating"}), {"product", "customer"})>>

StatsCategories == <<GroupBy("Product", {}), Page("Category", {"id"})>>

StatsOverview ==
    <<CountRows("Order", {}), CountRows("Customer", {}),
      CountRows("Order", {}), Aggregate("Order", {})>>

StatsRevenue == <<FindMany("Order", {"createdAt", "status"})>>

StatsSales ==
    <<GroupBy("Order", {"createdAt"}), GroupBy("OrderItem", {"order"}),
      Page("Product", {"id"})>>

EcommerceHandlers ==
    [categoriesSlugRatings |-> CategoriesSlugRatings, categoriesSlug |-> CategoriesSlug,
     categoriesOverview |-> CategoriesOverview, categories |-> Categories,
     customersIdOrders |-> CustomersIdOrders, customersId |-> CustomersId,
     customersIdSummary |-> CustomersIdSummary, ordersIdInvoice |-> OrdersIdInvoice,
     ordersId |-> OrdersId, ordersRecent |-> OrdersRecent, orders |-> Orders,
     productsIdRelated |-> ProductsIdRelated, productsId |-> ProductsId,
     productsExport |-> ProductsExport, productsLowStock |-> ProductsLowStock,
     products |-> Products, productsSearch |-> ProductsSearch,
     productsSitemap |-> ProductsSitemap, reviews |-> Reviews,
     statsCategories |-> StatsCategories, statsOverview |-> StatsOverview,
     statsRevenue |-> StatsRevenue, statsSales |-> StatsSales]

(* prisma/schema.prisma                                                    *)
EcommerceSchema ==
    [Category |-> [leading |-> {"id", "name", "slug"}, keyOf |-> <<>>, lists |-> {"products"}],
     Product |-> [leading |-> {"id", "sku", "categoryId", "createdAt", "name"},
                  keyOf |-> [category |-> "categoryId"], lists |-> {"orderItems", "reviews"}],
     Customer |-> [leading |-> {"id", "email"}, keyOf |-> <<>>, lists |-> {"orders", "reviews"}],
     Order |-> [leading |-> {"id", "customerId", "createdAt"},
                keyOf |-> [customer |-> "customerId"], lists |-> {"items"}],
     OrderItem |-> [leading |-> {"id", "orderId", "productId"},
                    keyOf |-> [order |-> "orderId", product |-> "productId"], lists |-> {}],
     Review |-> [leading |-> {"id", "productId", "customerId"},
                 keyOf |-> [product |-> "productId", customer |-> "customerId"], lists |-> {}]]

(* services/experiments/groundtruth/manifests/ecommerce.json               *)
EcommerceLabels ==
    [ordersRecent |-> "n_plus_one", categoriesOverview |-> "n_plus_one",
     ordersIdInvoice |-> "n_plus_one",
     orders |-> "missing_index", productsLowStock |-> "missing_index",
     reviews |-> "missing_index",
     productsExport |-> "unpaginated_find_many", statsRevenue |-> "unpaginated_find_many",
     productsSitemap |-> "unpaginated_find_many"]
=============================================================================
